---- MODULE Spec2Model ----
(***************************************************************************)
(* A model of the scrape-and-fuse pipeline of the neil repository:         *)
(*   src/src/lib/scrape.ts          the two URL-keyed caches, getScraped,  *)
(*                                  batchScrape, scrapeArticleHtml,        *)
(*                                  batchScrapeHtml                        *)
(*   src/src/app/api/chat/route.ts  the chat handler POST, getArticles,    *)
(*                                  ranking and fused-image resolution     *)
(*                                                                         *)
(* Strings whose characters matter (queries, titles, alt texts) are        *)
(* sequences of one-character strings; opaque strings are TLA+ strings.    *)
(* Time is the value of Date.now() in milliseconds.                        *)
(***************************************************************************)
EXTENDS Integers, Sequences, FiniteSets, TLC

VARIABLES
    now,            \* Date.now()
    scrapedCache,   \* scrape.ts:137  Map url -> {ts, data}
    htmlCache,      \* scrape.ts:240  Map url -> {ts, html}
    calls,          \* the batchScrape / batchScrapeHtml calls in flight
    cachedArticles, \* route.ts:28   the article index, null until first fetched
    lastFetch,      \* route.ts:29   when the stored index was fetched
    turn,           \* the invocation of POST being served
    gets,           \* calls of getArticles by requests served concurrently
    rank,           \* one application of the ranking: its inputs and result
    fus,            \* one resolution of a fusion reply: its inputs and result
    txt             \* one application of a text function: its argument and result

vars == <<now, scrapedCache, htmlCache, calls, cachedArticles, lastFetch, turn, gets, rank, fus, txt>>

\* What the functions of scrape.ts leave alone.
outsideLib == <<cachedArticles, lastFetch, turn, gets, rank, fus, txt>>

----------------------------------------------------------------------------
\* Bounds of the model

MaxTicks == 2       \* how many times the clock advances
MaxCalls == 2       \* batch calls that can be in flight at once
MaxBatch == 2       \* articles in one batch call
MaxInFlight == 2    \* articles being handled by all calls in flight together

----------------------------------------------------------------------------
\* Program constants

SCRAPE_TTL == 600000
MAX_IMAGES == 18

\* The clock advances in steps of half a TTL, so that an entry is seen at
\* ages 0, TTL/2 (fresh), TTL (stale, the boundary) and beyond.
TickMs == SCRAPE_TTL \div 2

----------------------------------------------------------------------------
\* Generic helpers

Min(a, b) == IF a < b THEN a ELSE b

Take(s, n) == SubSeq(s, 1, Min(n, Len(s)))

SeqsUpTo(S, n) == UNION { [1..k -> S] : k \in 0..n }

SetOfChars(str) == { str[i] : i \in 1..Len(str) }

\* The class [a-z0-9] of the ranking's split /[^a-z0-9]+/.
LowerCaseLetters == <<"a", "b", "c", "d", "e", "f", "g", "h", "i", "j", "k", "l", "m", "n", "o", "p", "q", "r", "s", "t", "u", "v", "w", "x", "y", "z">>
UpperCaseLetters == <<"A", "B", "C", "D", "E", "F", "G", "H", "I", "J", "K", "L", "M", "N", "O", "P", "Q", "R", "S", "T", "U", "V", "W", "X", "Y", "Z">>
Digits == <<"0", "1", "2", "3", "4", "5", "6", "7", "8", "9">>
AlnumChars == SetOfChars(LowerCaseLetters) \cup SetOfChars(Digits)

\* String.prototype.toLowerCase
LowerChar(ch) ==
    IF \E i \in 1..Len(UpperCaseLetters) : UpperCaseLetters[i] = ch
    THEN LowerCaseLetters[CHOOSE i \in 1..Len(UpperCaseLetters) : UpperCaseLetters[i] = ch]
    ELSE ch
toLowerCase(str) == [i \in 1..Len(str) |-> LowerChar(str[i])]

\* String.prototype.startsWith
startsWith(s, p) == Len(s) >= Len(p) /\ SubSeq(s, 1, Len(p)) = p

\* Map.set(k, v)
MapSet(m, k, v) == [x \in (DOMAIN m) \cup {k} |-> IF x = k THEN v ELSE m[x]]

----------------------------------------------------------------------------
\* Articles and upstream pages

URLs == {"u1", "u2"}

\* Two articles share the link u1: the index does not deduplicate links.
Articles ==
    { [title |-> "A", link |-> "u1"],
      [title |-> "B", link |-> "u2"],
      [title |-> "C", link |-> "u1"] }

EmptyData == [text |-> "", images |-> <<>>]

Img1 == [src |-> "http://h/f1.png", alt |-> "fig", caption |-> "cap"]

\* What an upstream page holds: the text of its main element and the
\* images found in it (figures first, then standalone images).
Pages == { [text |-> "body1", images |-> <<Img1>>] }

\* The ways a fetch can end: a 2xx response carrying a page, a non-2xx
\* response, or a rejected promise (network error).
FetchOutcomes ==
    { [kind |-> "ok", page |-> p] : p \in Pages }
        \cup { [kind |-> "non2xx", page |-> [text |-> "", images |-> <<>>]],
               [kind |-> "throw", page |-> [text |-> "", images |-> <<>>]] }

----------------------------------------------------------------------------
\* scrape.ts: scrapeArticle, getScraped, batchScrape

\* scrapeArticle(url) once its fetch has ended with outcome o.
scrapeArticle(o) ==
    IF o.kind = "ok"
    THEN [text |-> o.page.text, images |-> Take(o.page.images, MAX_IMAGES)]
    ELSE EmptyData

\* Mutant of Fresh: the boundary age TTL counts as fresh.
FreshInclusive(cache, url, t) ==
    /\ url \in DOMAIN cache
    /\ (t - cache[url].ts) <= SCRAPE_TTL

\* cached && (now - cached.ts) < SCRAPE_TTL
Fresh(cache, url, t) ==
    /\ url \in DOMAIN cache
    /\ (t - cache[url].ts) < SCRAPE_TTL

NoOpts == [perArticleNodeLimit |-> 0, perArticleFigureLimit |-> 0]

Idle ==
    [kind |-> "idle", articles |-> <<>>, t0 |-> 0, opts |-> NoOpts,
     ops |-> <<>>, done |-> FALSE, result |-> <<>>]

\* Articles being handled by the calls in flight.
InFlight == LET n[c \in 0..MaxCalls] ==
                    IF c = 0 THEN 0 ELSE n[c - 1] + Len(calls[c].articles)
            IN n[MaxCalls]

\* A call takes the lowest free slot (slots are only names for the calls).
CanStart(c, as) ==
    /\ calls[c].kind = "idle"
    /\ \A d \in 1..(c - 1) : calls[d].kind # "idle"
    /\ InFlight + Len(as) <= MaxInFlight

\* One getScraped(url) call: the part that runs before the first await.
GetScrapedBegin(url, t) ==
    IF Fresh(scrapedCache, url, t)
    THEN [st |-> "hit", outcome |-> "cached", res |-> scrapedCache[url].data]
    ELSE [st |-> "pending", outcome |-> "none", res |-> EmptyData]

\* batchScrape(articles) called at time t: articles.map runs every callback
\* up to its first await in one synchronous step, so all cache lookups see
\* the same cache and the same Date.now().
TextCall(as, t) ==
    [kind |-> "text", articles |-> as, t0 |-> t, opts |-> NoOpts,
     ops |-> [i \in 1..Len(as) |-> GetScrapedBegin(as[i].link, t)],
     done |-> FALSE, result |-> <<>>]

BatchScrapeStart(c, as) ==
    /\ CanStart(c, as)
    /\ calls' = [calls EXCEPT ![c] = TextCall(as, now)]
    /\ UNCHANGED <<now, scrapedCache, htmlCache>>
    /\ UNCHANGED outsideLib

\* The entry getScraped stores after scrapeArticle has returned.
ScrapedEntry(t, data) == [ts |-> t, data |-> data]

\* Mutant of GetScrapedResume: an empty result is not stored, as in
\* scrapeArticleHtml.
GetScrapedResumeSkipEmpty(c, i, o) ==
    /\ calls[c].kind = "text"
    /\ i \in 1..Len(calls[c].ops)
    /\ calls[c].ops[i].st = "pending"
    /\ LET data == scrapeArticle(o)
           url == calls[c].articles[i].link
       IN /\ scrapedCache' = IF data = EmptyData THEN scrapedCache
                             ELSE MapSet(scrapedCache, url, ScrapedEntry(calls[c].t0, data))
          /\ calls' = [calls EXCEPT ![c].ops[i] =
                [st |-> "done", outcome |-> o.kind, res |-> data]]
    /\ UNCHANGED <<now, htmlCache>>
    /\ UNCHANGED outsideLib

\* getScraped(url) resumes after its fetch ended with outcome o:
\* scrapedCache.set(url, {ts: now, data}) with the now of the call's start.
GetScrapedResume(c, i, o) ==
    /\ calls[c].kind = "text"
    /\ i \in 1..Len(calls[c].ops)
    /\ calls[c].ops[i].st = "pending"
    /\ LET data == scrapeArticle(o)
           url == calls[c].articles[i].link
       IN /\ scrapedCache' = MapSet(scrapedCache, url, ScrapedEntry(calls[c].t0, data))
          /\ calls' = [calls EXCEPT ![c].ops[i] =
                [st |-> "done", outcome |-> o.kind, res |-> data]]
    /\ UNCHANGED <<now, htmlCache>>
    /\ UNCHANGED outsideLib

\* Mutant of BatchScrapeResult: entries without text are filtered out, as
\* batchScrapeHtml does with empty html.
BatchScrapeResultFiltered(as, ops) ==
    SelectSeq([i \in 1..Len(as) |->
                  [title |-> as[i].title, link |-> as[i].link,
                   text |-> ops[i].res.text, images |-> ops[i].res.images]],
              LAMBDA r : r.text # "")

\* The array Promise.all resolves with: one entry per callback, by index.
BatchScrapeResult(as, ops) ==
    [i \in 1..Len(as) |->
        [title |-> as[i].title, link |-> as[i].link,
         text |-> ops[i].res.text, images |-> ops[i].res.images]]

\* Promise.all resolves once every callback has returned.
BatchScrapeResolve(c) ==
    /\ calls[c].kind = "text"
    /\ ~calls[c].done
    /\ \A i \in 1..Len(calls[c].ops) : calls[c].ops[i].st # "pending"
    /\ calls' = [calls EXCEPT ![c].done = TRUE,
                              ![c].result = BatchScrapeResult(calls[c].articles, calls[c].ops)]
    /\ UNCHANGED <<now, scrapedCache, htmlCache>>
    /\ UNCHANGED outsideLib

----------------------------------------------------------------------------
\* scrape.ts: structured HTML extraction

\* An element of the parsed page: its tag, the names of its attributes and
\* its child elements. The model keeps two levels, which is what nesting a
\* whitelisted element in another (an img in a figure, a figure in a
\* blockquote) needs.
Leaf(tag) == [tag |-> tag, attrs |-> {}, kids |-> <<>>]
Elem(tag, kids) == [tag |-> tag, attrs |-> {}, kids |-> kids]
WithAttrs(e, attrs) == [e EXCEPT !.attrs = attrs]

\* Attribute names.
Attr_src == <<"s", "r", "c">>
Attr_style == <<"s", "t", "y", "l", "e">>
Attr_onclick == <<"o", "n", "c", "l", "i", "c", "k">>
Attr_onerror == <<"o", "n", "e", "r", "r", "o", "r">>
Attr_onload == <<"o", "n", "l", "o", "a", "d">>
Attr_OnMouseOver == <<"O", "n", "M", "o", "u", "s", "e", "O", "v", "e", "r">>

\* The main containers (pickMainContainer's result) upstream pages hold.
Containers ==
    { <<Elem("div", <<Leaf("script")>>)>>,
      << WithAttrs(Leaf("p"), {Attr_onclick}),
         Elem("figure", <<WithAttrs(Leaf("img"), {Attr_src, Attr_onerror, Attr_OnMouseOver})>>),
         Elem("figure", <<Leaf("img")>>) >>,
      << Elem("blockquote", <<WithAttrs(Leaf("figure"), {Attr_onload, Attr_style})>>),
         Leaf("p") >> }

HtmlOutcomes ==
    { [kind |-> "ok", container |-> k] : k \in Containers }
        \cup { [kind |-> "non2xx", container |-> <<>>],
               [kind |-> "throw", container |-> <<>>] }

DefaultNodeLimit == 60
DefaultFigureLimit == 8

Undefined == [perArticleNodeLimit |-> -1, perArticleFigureLimit |-> -1]

\* opts?.perArticleNodeLimit ?? 60 and opts?.perArticleFigureLimit ?? 8
NodeLimitOf(opts) ==
    IF opts = Undefined THEN DefaultNodeLimit ELSE opts.perArticleNodeLimit
FigureLimitOf(opts) ==
    IF opts = Undefined THEN DefaultFigureLimit ELSE opts.perArticleFigureLimit

\* The elements of s whose position is in K, in order (from position i on).
RECURSIVE FilterByIndex(_, _, _)
FilterByIndex(s, i, K) ==
    IF i > Len(s) THEN <<>>
    ELSE (IF i \in K THEN <<s[i]>> ELSE <<>>) \o FilterByIndex(s, i + 1, K)

CountTag(s, tag) == Cardinality({ i \in 1..Len(s) : s[i].tag = tag })

\* Figures of one element's subtree.
FiguresIn(e) == (IF e.tag = "figure" THEN 1 ELSE 0) + CountTag(e.kids, "figure")

\* Figures of a sequence of serialized nodes.
RECURSIVE NumFigures(_)
NumFigures(s) ==
    IF s = <<>> THEN 0 ELSE FiguresIn(Head(s)) + NumFigures(Tail(s))

\* Index, in container.querySelectorAll('figure'), of the first figure at or
\* below top-level element i.
RECURSIVE FigIndexTop(_, _)
FigIndexTop(cont, i) ==
    IF i = 1 THEN 0 ELSE FigIndexTop(cont, i - 1) + FiguresIn(cont[i - 1])

FigIndexKid(cont, i, k) ==
    FigIndexTop(cont, i) + (IF cont[i].tag = "figure" THEN 1 ELSE 0)
        + CountTag(SubSeq(cont[i].kids, 1, k - 1), "figure")

\* k.toLowerCase().startsWith('on')
IsHandlerName(k) == startsWith(toLowerCase(k), <<"o", "n">>)

\* The attributes normalizeLinksAndImages removes from an img by name.
RemovedImgAttrs ==
    { <<"s", "r", "c", "s", "e", "t">>, <<"s", "i", "z", "e", "s">>, <<"i", "n", "t", "e", "g", "r", "i", "t", "y">>, <<"c", "r", "o", "s", "s", "o", "r", "i", "g", "i", "n">>, <<"r", "e", "f", "e", "r", "r", "e", "r", "p", "o", "l", "i", "c", "y">>,
      <<"s", "t", "y", "l", "e">>, <<"o", "n", "l", "o", "a", "d">>, <<"o", "n", "c", "l", "i", "c", "k">>, <<"o", "n", "e", "r", "r", "o", "r">> }

ImgSrcAttrs == { <<"s", "r", "c">>, <<"d", "a", "t", "a", "-", "s", "r", "c">>, <<"d", "a", "t", "a", "-", "o", "r", "i", "g", "i", "n", "a", "l">> }

\* An img: src is set when src, data-src or data-original gives one, the
\* listed attributes are removed, then loading, decoding, alt and style
\* are set.
normalizeImg(attrs) ==
    ((attrs \cup (IF attrs \cap ImgSrcAttrs # {} THEN {Attr_src} ELSE {}))
        \ RemovedImgAttrs)
      \cup { <<"l", "o", "a", "d", "i", "n", "g">>, <<"d", "e", "c", "o", "d", "i", "n", "g">>, <<"a", "l", "t">>, Attr_style }

\* An a: target and rel are set, then every on* attribute is removed.
normalizeAnchor(attrs) ==
    { k \in attrs \cup { <<"t", "a", "r", "g", "e", "t">>, <<"r", "e", "l">> } : ~IsHandlerName(k) }

\* What normalizeLinksAndImages does to the attributes of one element.
normalizeAttrs(e) ==
    [e EXCEPT !.attrs =
        CASE e.tag = "a" -> normalizeAnchor(e.attrs)
          [] e.tag = "figure" -> e.attrs \cup {Attr_style}
          [] e.tag = "img" -> normalizeImg(e.attrs)
          [] OTHER -> e.attrs]

\* normalizeLinksAndImages: the figure with index idx >= figureLimit is
\* removed from the tree (with its subtree); the attributes of the a,
\* figure and img elements that stay are normalized.
normalizeLinksAndImages(cont, figureLimit) ==
    LET keepTop == { i \in 1..Len(cont) :
                        ~(cont[i].tag = "figure" /\ FigIndexTop(cont, i) >= figureLimit) }
        pruned(i) ==
            LET keepKid == { k \in 1..Len(cont[i].kids) :
                                ~(cont[i].kids[k].tag = "figure"
                                    /\ FigIndexKid(cont, i, k) >= figureLimit) }
                kids == FilterByIndex(cont[i].kids, 1, keepKid)
            IN [normalizeAttrs(cont[i]) EXCEPT
                  !.kids = [k \in 1..Len(kids) |-> normalizeAttrs(kids[k])]]
        tops == [i \in 1..Len(cont) |-> pruned(i)]
    IN FilterByIndex(tops, 1, keepTop)

keepSelectors == {"h1", "h2", "h3", "h4", "p", "ul", "ol", "blockquote",
                  "pre", "figure", "img", "table"}
badSelectors == {"script", "style", "meta", "link", "iframe", "object",
                 "embed", "noscript"}

\* container.querySelectorAll(keepSelectors): the matching elements of the
\* tree in document order, descendants of matching elements included.
RECURSIVE querySelectorAllKeep(_)
querySelectorAllKeep(cont) ==
    IF cont = <<>> THEN <<>>
    ELSE LET e == Head(cont)
         IN (IF e.tag \in keepSelectors THEN <<e>> ELSE <<>>)
              \o SelectSeq(e.kids, LAMBDA k : k.tag \in keepSelectors)
              \o querySelectorAllKeep(Tail(cont))

\* What the pass over node.querySelectorAll('*') does to one descendant of
\* a kept node: its on* attributes are removed, and its style unless it is
\* an img or a figure.
sanitizeDescendant(el) ==
    [el EXCEPT !.attrs =
        { k \in el.attrs :
            /\ ~IsHandlerName(k)
            /\ (k = Attr_style => el.tag \in {"img", "figure"}) }]

\* A kept node as serialized by toString() after the pass over it: its
\* disallowed descendants are removed and the others sanitized; the node's
\* own attributes are not touched.
Serialize(node) ==
    LET kids == SelectSeq(node.kids, LAMBDA k : k.tag \notin badSelectors)
    IN [node EXCEPT !.kids = [k \in 1..Len(kids) |-> sanitizeDescendant(kids[k])]]

\* extractAllowedHtml: the first perArticleNodeLimit matching nodes are
\* passed over in place, then each is serialized (a matching node nested in
\* a passed one is serialized as the pass over its parent left it); the
\* html is their concatenation (here: their sequence).
extractAllowedHtml(cont, perArticleNodeLimit) ==
    LET posTop(i) == Len(querySelectorAllKeep(SubSeq(cont, 1, i - 1))) + 1
        passed(i) == cont[i].tag \in keepSelectors /\ posTop(i) <= perArticleNodeLimit
        tree == [i \in 1..Len(cont) |-> IF passed(i) THEN Serialize(cont[i]) ELSE cont[i]]
    IN Take(querySelectorAllKeep(tree), perArticleNodeLimit)

\* scrapeArticleHtml's result once its fetch has ended with outcome o.
ContentHtml(o, opts) ==
    IF o.kind = "ok"
    THEN extractAllowedHtml(
            normalizeLinksAndImages(o.container, FigureLimitOf(opts)),
            NodeLimitOf(opts))
    ELSE <<>>

\* Mutant of StoresHtml: every recomputed html is stored.
StoresHtmlAlways(o, html) == TRUE

\* if (contentHtml && contentHtml.trim()) htmlCache.set(...): reached only
\* on a 2xx response, and only with a non-empty html.
StoresHtml(o, html) == o.kind = "ok" /\ html # <<>>

\* The key of an html cache entry: the url alone.
HtmlCacheKey(url, opts) == url

\* One scrapeArticleHtml(url, opts) call: the part before the first await.
ScrapeArticleHtmlBegin(url, opts, t) ==
    IF Fresh(htmlCache, HtmlCacheKey(url, opts), t)
    THEN [st |-> "hit", outcome |-> "cached",
          res |-> htmlCache[HtmlCacheKey(url, opts)].html]
    ELSE [st |-> "pending", outcome |-> "none", res |-> <<>>]

\* The limits callers pass.
MaxNodeLimit == 2
MaxFigureLimit == 1

OptChoices ==
    {Undefined} \cup
    { [perArticleNodeLimit |-> n, perArticleFigureLimit |-> f] :
        n \in 1..MaxNodeLimit, f \in 0..MaxFigureLimit }

\* batchScrapeHtml(articles, opts) called at time t: as batchScrape, every
\* callback runs up to its fetch in one synchronous step.
HtmlCall(as, opts, t) ==
    [kind |-> "html", articles |-> as, t0 |-> t, opts |-> opts,
     ops |-> [i \in 1..Len(as) |-> ScrapeArticleHtmlBegin(as[i].link, opts, t)],
     done |-> FALSE, result |-> <<>>]

BatchScrapeHtmlStart(c, as, opts) ==
    /\ CanStart(c, as)
    /\ calls' = [calls EXCEPT ![c] = HtmlCall(as, opts, now)]
    /\ UNCHANGED <<now, scrapedCache, htmlCache>>
    /\ UNCHANGED outsideLib

\* scrapeArticleHtml resumes after its fetch ended with outcome o.
ScrapeArticleHtmlResume(c, i, o) ==
    /\ calls[c].kind = "html"
    /\ i \in 1..Len(calls[c].ops)
    /\ calls[c].ops[i].st = "pending"
    /\ LET html == ContentHtml(o, calls[c].opts)
           key == HtmlCacheKey(calls[c].articles[i].link, calls[c].opts)
       IN /\ htmlCache' =
                IF StoresHtml(o, html)
                THEN MapSet(htmlCache, key, [ts |-> calls[c].t0, html |-> html])
                ELSE htmlCache
          /\ calls' = [calls EXCEPT ![c].ops[i] =
                [st |-> "done", outcome |-> o.kind, res |-> html]]
    /\ UNCHANGED <<now, scrapedCache>>
    /\ UNCHANGED outsideLib

\* Mutant of BatchScrapeHtmlResult: the sections are not filtered.
BatchScrapeHtmlResultAll(as, ops) ==
    [i \in 1..Len(as) |-> [article |-> as[i], html |-> ops[i].res]]

\* sections.filter(s => s.html && s.html.trim())
BatchScrapeHtmlResult(as, ops) ==
    SelectSeq([i \in 1..Len(as) |-> [article |-> as[i], html |-> ops[i].res]],
              LAMBDA s : s.html # <<>>)

BatchScrapeHtmlResolve(c) ==
    /\ calls[c].kind = "html"
    /\ ~calls[c].done
    /\ \A i \in 1..Len(calls[c].ops) : calls[c].ops[i].st # "pending"
    /\ calls' = [calls EXCEPT ![c].done = TRUE,
                              ![c].result = BatchScrapeHtmlResult(calls[c].articles, calls[c].ops)]
    /\ UNCHANGED <<now, scrapedCache, htmlCache>>
    /\ UNCHANGED outsideLib

----------------------------------------------------------------------------

\* The caller has taken the result; the slot is free for the next call.
Return(c) ==
    /\ calls[c].done
    /\ calls' = [calls EXCEPT ![c] = Idle]
    /\ UNCHANGED <<now, scrapedCache, htmlCache>>
    /\ UNCHANGED outsideLib

Tick ==
    /\ now < MaxTicks * TickMs
    /\ now' = now + TickMs
    /\ UNCHANGED <<scrapedCache, htmlCache, calls>>
    /\ UNCHANGED outsideLib

----------------------------------------------------------------------------
\* route.ts: ranking of the article index against the query

MaxQueryLen == 3    \* characters of a query
MaxCorpus == 3      \* articles of a drawn corpus
MaxK == 3           \* the configured maximum article count

\* Characters of a drawn query: lower-case letters, an upper-case letter,
\* and a character the split separates on.
QueryChars == {"a", "b", "A", " "}

\* The maximal runs of characters of class in str, from position i on.
RECURSIVE SplitFrom(_, _, _, _)
SplitFrom(str, i, cur, class) ==
    IF i > Len(str)
    THEN IF cur = <<>> THEN <<>> ELSE <<cur>>
    ELSE IF str[i] \in class
         THEN SplitFrom(str, i + 1, Append(cur, str[i]), class)
         ELSE (IF cur = <<>> THEN <<>> ELSE <<cur>>) \o SplitFrom(str, i + 1, <<>>, class)

\* englishQuery.toLowerCase().split(/[^a-z0-9]+/).filter(Boolean)
Tokens(str) == SplitFrom(toLowerCase(str), 1, <<>>, AlnumChars)

\* String.prototype.includes
includes(hay, needle) ==
    \E i \in 0..(Len(hay) - Len(needle)) :
        \A j \in 1..Len(needle) : hay[i + j] = needle[j]

\* tokens.reduce((acc, t) => acc + (at.includes(t) ? 1 : 0), 0)
Score(tokens, title) ==
    Cardinality({ i \in 1..Len(tokens) : includes(toLowerCase(title), tokens[i]) })

\* Mutant of InsertByScore: an element goes before those of equal score.
RECURSIVE InsertByScoreUnstable(_, _)
InsertByScoreUnstable(sorted, x) ==
    IF sorted = <<>> THEN <<x>>
    ELSE IF Head(sorted).score > x.score
         THEN <<Head(sorted)>> \o InsertByScoreUnstable(Tail(sorted), x)
         ELSE <<x>> \o sorted

\* Array.prototype.sort((a, b) => b.score - a.score): stable, descending.
RECURSIVE InsertByScore(_, _)
InsertByScore(sorted, x) ==
    IF sorted = <<>> THEN <<x>>
    ELSE IF Head(sorted).score >= x.score
         THEN <<Head(sorted)>> \o InsertByScore(Tail(sorted), x)
         ELSE <<x>> \o sorted

RECURSIVE SortByScoreDesc(_)
SortByScoreDesc(xs) ==
    IF xs = <<>> THEN <<>>
    ELSE InsertByScore(SortByScoreDesc(SubSeq(xs, 1, Len(xs) - 1)), xs[Len(xs)])

\* Array.prototype.slice(0, n) for n >= 0
Slice0(xs, n) == SubSeq(xs, 1, Min(n, Len(xs)))

Scored(tokens, articles) ==
    [i \in 1..Len(articles) |->
        [article |-> articles[i], score |-> Score(tokens, articles[i].title)]]

ArticlesOf(scored) == [i \in 1..Len(scored) |-> scored[i].article]

\* Mutant of domainRank: no filter on score > 0; all articles are sorted.
domainRankUnfiltered(englishQuery, articles, maxArticles) ==
    ArticlesOf(Slice0(SortByScoreDesc(Scored(Tokens(englishQuery), articles)), maxArticles))

\* POST, domain branch (route.ts:237-246): the articles with score > 0, or
\* all of them when none scores, sorted by score and cut to maxArticles.
domainRank(englishQuery, articles, maxArticles) ==
    LET all == Scored(Tokens(englishQuery), articles)
        scored == SelectSeq(all, LAMBDA x : x.score > 0)
        unscored == [i \in 1..Len(articles) |-> [article |-> articles[i], score |-> 0]]
        top == IF Len(scored) > 0 THEN scored ELSE unscored
    IN ArticlesOf(Slice0(SortByScoreDesc(top), maxArticles))

CapabilityMax == 10

\* POST, capability branch (route.ts:216-222): all articles sorted by score
\* and cut to 10.
capabilityRank(englishQuery, articles) ==
    LET scored == ArticlesOf(Slice0(SortByScoreDesc(Scored(Tokens(englishQuery), articles)),
                                     CapabilityMax))
    IN IF Len(scored) > 0 THEN scored ELSE Slice0(articles, CapabilityMax)

\* The index rows a corpus is drawn from (the link stands for the row).
Str_ab == <<"a", "b">>
Str_A == <<"A">>
Str_b_c == <<"b", " ", "c">>

RankArticles ==
    { [title |-> Str_ab, link |-> "l1"],
      [title |-> Str_A, link |-> "l2"],
      [title |-> Str_b_c, link |-> "l3"] }

\* A corpus longer than the capability branch's cut.
LongCorpus ==
    [i \in 1..(CapabilityMax + 1) |->
        [title |-> IF i % 2 = 0 THEN Str_ab ELSE Str_b_c, link |-> "l3"]]

Corpora ==
    (SeqsUpTo(RankArticles, MaxCorpus) \ {<<>>}) \cup {LongCorpus}

RankIdle == [pc |-> "idle", query |-> <<>>, corpus |-> <<>>, k |-> 0,
             domain |-> <<>>, capability |-> <<>>]

RankInputs ==
    { [pc |-> "in", query |-> q, corpus |-> corpus, k |-> k,
       domain |-> <<>>, capability |-> <<>>] :
         q \in SeqsUpTo(QueryChars, MaxQueryLen), corpus \in Corpora, k \in 0..MaxK }

\* The domain branch ranks the index.
ApplyDomainRank ==
    /\ rank.pc = "in"
    /\ rank' = [rank EXCEPT !.pc = "domain",
                            !.domain = domainRank(rank.query, rank.corpus, rank.k)]
    /\ UNCHANGED <<now, scrapedCache, htmlCache, calls, cachedArticles, lastFetch, turn, gets, fus, txt>>

\* The capability branch ranks the index.
ApplyCapabilityRank ==
    /\ rank.pc = "in"
    /\ rank' = [rank EXCEPT !.pc = "capability",
                            !.capability = capabilityRank(rank.query, rank.corpus)]
    /\ UNCHANGED <<now, scrapedCache, htmlCache, calls, cachedArticles, lastFetch, turn, gets, fus, txt>>

----------------------------------------------------------------------------
\* route.ts: documents of the fusion prompt and resolution of the reply

FuseArticlesMax == 8    \* SPACE_BIO_FUSE_MAX, by default
DocImagesMax == 6
SectionImagesMax == 3

MaxRefs == 4            \* imageRefs of a drawn section

\* A character that tok's class /[a-z0-9éèêàùçäëïöüâôî]/ holds and the
\* ranking's /[a-z0-9]/ does not.
AccentChars == {"é"}
TokChars == AlnumChars \cup AccentChars

\* tok(s): (s || '').toLowerCase().split(/[^a-z0-9éè...]+/).filter(Boolean)
tok(str) == SplitFrom(toLowerCase(str), 1, <<>>, TokChars)

Space == <<" ">>

SetOf(xs) == { xs[i] : i \in 1..Len(xs) }

\* An image url: its kind ("http", "data" for data: urls, "proxy" for
\* /api/image?url=..., "empty") and what distinguishes it from the others
\* of its kind; a proxy url also tells the kind of the url it encodes.
Url(kind, n) == [kind |-> kind, n |-> n, of |-> ""]

\* proxyUrl(u): empty, already proxied and data: urls are returned as they
\* are, any other becomes /api/image?url=encodeURIComponent(u).
proxyUrl(u) ==
    IF u.kind \in {"empty", "proxy", "data"} THEN u
    ELSE [kind |-> "proxy", n |-> u.n, of |-> u.kind]

\* Mutant of docsForPrompt: images are numbered from 1.
docsForPromptOneBased(scraped) ==
    [i \in 1..Len(scraped) |->
        [idx |-> i, title |-> scraped[i].title, url |-> scraped[i].link,
         images |->
            LET imgs == Slice0(scraped[i].images, DocImagesMax)
            IN [j \in 1..Len(imgs) |->
                    [idx |-> j, src |-> imgs[j].src, alt |-> imgs[j].alt]]]]

\* docsForPrompt (route.ts:253-259): document i gets idx i + 1 (here the
\* position, sequences being 1-based) and its first 6 images, numbered
\* from 0. The text of a document plays no part in the resolution.
docsForPrompt(scraped) ==
    [i \in 1..Len(scraped) |->
        [idx |-> i, title |-> scraped[i].title, url |-> scraped[i].link,
         images |->
            LET imgs == Slice0(scraped[i].images, DocImagesMax)
            IN [j \in 1..Len(imgs) |->
                    [idx |-> j - 1, src |-> imgs[j].src, alt |-> imgs[j].alt]]]]

\* Array.prototype.find: the first element satisfying the test, as a
\* sequence of at most one element (empty for undefined).
FindDoc(docs, n) == Slice0(SelectSeq(docs, LAMBDA d : d.idx = n), 1)
FindImage(d, n) ==
    IF d = <<>> THEN <<>>
    ELSE Slice0(SelectSeq(d[1].images, LAMBDA ii : ii.idx = n), 1)

\* Mutant of WithScore: the citation is always the document's index.
WithScoreCitesDoc(docs, secTokens, ref) ==
    LET d == FindDoc(docs, ref.doc)
        im == FindImage(d, ref.img)
    IN IF im = <<>> THEN <<>>
       ELSE LET imgTokens == SetOf(tok(im[1].alt \o Space \o ref.caption \o Space \o d[1].title))
            IN << [overlap |-> Cardinality(imgTokens \cap secTokens),
                   score |-> Cardinality(imgTokens \cap secTokens),
                   data |-> [src |-> im[1].src, alt |-> im[1].alt,
                             caption |-> ref.caption,
                             citeIndex |-> ref.doc]] >>

\* One imageRef of a section (route.ts:310-317): dropped when the document
\* or the image is not found, scored by token overlap otherwise.
WithScore(docs, secTokens, ref) ==
    LET d == FindDoc(docs, ref.doc)
        im == FindImage(d, ref.img)
    IN IF im = <<>> THEN <<>>
       ELSE LET imgTokens == SetOf(tok(im[1].alt \o Space \o ref.caption \o Space \o d[1].title))
            IN << [overlap |-> Cardinality(imgTokens \cap secTokens),
                   score |-> Cardinality(imgTokens \cap secTokens),
                   data |-> [src |-> im[1].src, alt |-> im[1].alt,
                             caption |-> ref.caption,
                             citeIndex |-> IF ref.citeIndex # 0 THEN ref.citeIndex
                                           ELSE ref.doc]] >>

RECURSIVE WithScores(_, _, _)
WithScores(docs, secTokens, refs) ==
    IF refs = <<>> THEN <<>>
    ELSE WithScore(docs, secTokens, Head(refs)) \o WithScores(docs, secTokens, Tail(refs))

\* Mutant of ResolveSection: the overlapping images are not sorted.
ResolveSectionUnsorted(docs, englishQuery, sec) ==
    LET secTokens == SetOf(tok(sec.text_markdown \o Space \o englishQuery))
        withScores == WithScores(docs, secTokens, sec.imageRefs)
        overlapping == Slice0(SelectSeq(withScores, LAMBDA x : x.overlap > 0),
                              SectionImagesMax)
        filtered == IF overlapping = <<>> /\ withScores # <<>>
                    THEN Slice0(withScores, 1)
                    ELSE overlapping
    IN [heading |-> sec.heading, markdown |-> sec.text_markdown,
        images |-> [i \in 1..Len(filtered) |->
                      [filtered[i].data EXCEPT !.src = proxyUrl(filtered[i].data.src)]]]

\* One section of the reply (route.ts:308-324).
ResolveSection(docs, englishQuery, sec) ==
    LET secTokens == SetOf(tok(sec.text_markdown \o Space \o englishQuery))
        withScores == WithScores(docs, secTokens, sec.imageRefs)
        overlapping == Slice0(SortByScoreDesc(SelectSeq(withScores, LAMBDA x : x.overlap > 0)),
                              SectionImagesMax)
        filtered == IF overlapping = <<>> /\ withScores # <<>>
                    THEN Slice0(withScores, 1)
                    ELSE overlapping
    IN [heading |-> sec.heading, markdown |-> sec.text_markdown,
        images |-> [i \in 1..Len(filtered) |->
                      [filtered[i].data EXCEPT !.src = proxyUrl(filtered[i].data.src)]]]

ResolveSections(docs, englishQuery, sectionsIn) ==
    [i \in 1..Len(sectionsIn) |-> ResolveSection(docs, englishQuery, sectionsIn[i])]

\* Scraped articles the resolution is tried on.
Str_a == <<"a">>
Str_b == <<"b">>
Str_c == <<"c">>
Str_e == <<"é">>
Str_empty == <<>>

Image(n, alt) == [src |-> Url("http", n), alt |-> alt, caption |-> Str_empty]
DataImage(n, alt) == [src |-> Url("data", n), alt |-> alt, caption |-> Str_empty]

ScrapedArt(n, title, images) ==
    [title |-> title, link |-> <<"http://h/art", n>>, text |-> "body", images |-> images]

\* Two articles, the second without images.
ScrapedSmall ==
    << ScrapedArt(1, Str_c, <<Image(1, Str_a), Image(2, Str_b)>>),
       ScrapedArt(2, Str_b, <<>>) >>

\* More articles than are fused, the first with more images than a document
\* of the prompt holds.
ScrapedBig ==
    [n \in 1..(FuseArticlesMax + 1) |->
        ScrapedArt(n, IF n = 1 THEN Str_c ELSE Str_e,
                   IF n = 1
                   THEN [j \in 1..(DocImagesMax + 1) |->
                            Image(10 + j, IF j % 2 = 1 THEN Str_a ELSE Str_b)]
                   ELSE IF n \in {5, FuseArticlesMax + 1}
                        THEN <<Image(50, Str_e), Image(51, Str_b), DataImage(52, Str_empty)>>
                        ELSE <<>>)]

ScrapedChoices == {ScrapedSmall, ScrapedBig}

\* Image references a model reply can carry.
Ref(doc, img, caption, citeIndex) ==
    [doc |-> doc, img |-> img, caption |-> caption, citeIndex |-> citeIndex]

RefChoices ==
    { Ref(1, 0, Str_empty, 0),
      Ref(1, 1, Str_a, 7),
      Ref(1, 2, Str_empty, 0),
      Ref(5, 2, Str_b, 0),
      Ref(1, DocImagesMax, Str_a, 0),
      Ref(FuseArticlesMax + 1, 0, Str_b, 0),
      Ref(0, 0, Str_a, 0) }

MarkdownChoices == { <<"a", " ", "é">>, Str_c }

SectionChoices ==
    { [heading |-> "Introduction", text_markdown |-> md, imageRefs |-> refs] :
        md \in MarkdownChoices, refs \in SeqsUpTo(RefChoices, MaxRefs) }

Conclusion == [heading |-> "Conclusion", text_markdown |-> Str_b, imageRefs |-> <<>>]

FusIdle == [pc |-> "idle", scraped |-> <<>>, englishQuery |-> <<>>,
            sections |-> <<>>, resolved |-> <<>>]

FusionInputs ==
    { [pc |-> "parsed", scraped |-> scraped, englishQuery |-> q,
       sections |-> <<sec>> \o more, resolved |-> <<>>] :
         scraped \in ScrapedChoices, q \in {Str_empty, Str_b},
         sec \in SectionChoices, more \in {<<>>, <<Conclusion>>} }

\* const fuseTargets = relatedArticles.slice(0, fuseArticlesMax); the
\* documents of the prompt are built from what batchScrape returned for them.
FusionDocs(scraped) == docsForPrompt(Slice0(scraped, FuseArticlesMax))

\* The handler resolves the sections of the parsed reply.
ResolveReply ==
    /\ fus.pc = "parsed"
    /\ fus' = [fus EXCEPT !.pc = "resolved",
                          !.resolved = ResolveSections(FusionDocs(fus.scraped),
                                                       fus.englishQuery, fus.sections)]
    /\ UNCHANGED <<now, scrapedCache, htmlCache, calls, cachedArticles, lastFetch, turn, gets, rank, txt>>

----------------------------------------------------------------------------
\* route.ts: intent detection

Whitespace == {" ", "\t", "\n", "\r"}

\* String.prototype.trim
RECURSIVE trimStart(_)
trimStart(s) == IF s # <<>> /\ Head(s) \in Whitespace THEN trimStart(Tail(s)) ELSE s

RECURSIVE trimEnd(_)
trimEnd(s) ==
    IF s # <<>> /\ s[Len(s)] \in Whitespace THEN trimEnd(SubSeq(s, 1, Len(s) - 1)) ELSE s

trim(s) == trimEnd(trimStart(s))

SpaceBioKeywords ==
    { <<"s", "p", "a", "c", "e", " ", "b", "i", "o", "l", "o", "g", "y">>, <<"b", "i", "o", "l", "o", "g", "i", "e", " ", "s", "p", "a", "t", "i", "a", "l", "e">>, <<"m", "i", "c", "r", "o", "g", "r", "a", "v", "i", "t", "y">>, <<"m", "i", "c", "r", "o", "-", "g", "r", "a", "v", "i", "t", "y">>,
      <<"m", "i", "c", "r", "o", "g", "r", "a", "v", "i", "t", "é">>, <<"i", "s", "s">>, <<"i", "n", "t", "e", "r", "n", "a", "t", "i", "o", "n", "a", "l", " ", "s", "p", "a", "c", "e", " ", "s", "t", "a", "t", "i", "o", "n">>, <<"s", "p", "a", "t", "i", "a", "l", " ", "b", "i", "o", "l", "o", "g", "y">>,
      <<"s", "p", "a", "c", "e", "f", "l", "i", "g", "h", "t">>, <<"s", "p", "a", "c", "e", " ", "f", "l", "i", "g", "h", "t">>, <<"g", "r", "a", "v", "i", "t", "y", " ", "b", "i", "o", "l", "o", "g", "y">>, <<"z", "e", "r", "o", " ", "g">>, <<"0", "g">>,
      <<"s", "p", "a", "c", "e", " ", "b", "i", "o">>, <<"g", "r", "a", "v", "i", "t", "é">>, <<"g", "r", "a", "v", "i", "t", "y">>, <<"b", "i", "o", "l", "o", "g", "i", "e", " ", "d", "e", " ", "l", "'", "e", "s", "p", "a", "c", "e">>,
      <<"b", "i", "o", "l", "o", "g", "y", " ", "o", "f", " ", "s", "p", "a", "c", "e">>, <<"s", "p", "a", "c", "e", " ", "e", "n", "v", "i", "r", "o", "n", "m", "e", "n", "t">> }

\* isSpaceBiologyQuery: some keyword is a substring of the lowered text.
isSpaceBiologyQuery(text) ==
    \E k \in SpaceBioKeywords : includes(toLowerCase(text), k)

\* The word characters of \b.
WordChars == AlnumChars \cup SetOfChars(UpperCaseLetters) \cup {"_"}

Greetings == { <<"s", "a", "l", "u", "t">>, <<"b", "o", "n", "j", "o", "u", "r">>, <<"b", "o", "n", "s", "o", "i", "r">>, <<"h", "e", "l", "l", "o">>, <<"h", "i">>, <<"h", "e", "y">>, <<"y", "o">> }

\* \bg\b matches in t right after its first i characters.
WordAt(t, g, i) ==
    /\ i + Len(g) <= Len(t)
    /\ SubSeq(t, i + 1, i + Len(g)) = g
    /\ (i = 0 \/ t[i] \notin WordChars)
    /\ (i + Len(g) = Len(t) \/ t[i + Len(g) + 1] \notin WordChars)

\* isGreeting: /\b(salut|bonjour|bonsoir|hello|hi|hey|yo)\b/ on the trimmed,
\* lowered text.
isGreeting(text) ==
    LET t == toLowerCase(trim(text))
    IN \E g \in Greetings : \E i \in 0..Len(t) : WordAt(t, g, i)

\* The pieces of the regular expressions of isCapabilityAsk: a literal
\* string, \s+, one character of a class, an optional character of a class.
Lit(str) == [i \in 1..Len(str) |-> [t |-> "one", cs |-> {str[i]}]]
Ws == << [t |-> "ws", cs |-> Whitespace] >>
OneOf(cs) == << [t |-> "one", cs |-> cs] >>
Opt(cs) == << [t |-> "opt", cs |-> cs] >>
WsStar == << [t |-> "star", cs |-> Whitespace] >>

\* The pattern, from its piece p on, matches str from position i on.
RECURSIVE MatchAt(_, _, _, _)
MatchAt(pat, p, str, i) ==
    IF p > Len(pat) THEN TRUE
    ELSE LET here == i <= Len(str) /\ str[i] \in pat[p].cs
         IN CASE pat[p].t = "one" -> here /\ MatchAt(pat, p + 1, str, i + 1)
              [] pat[p].t = "opt" ->
                    \/ MatchAt(pat, p + 1, str, i)
                    \/ (here /\ MatchAt(pat, p + 1, str, i + 1))
              [] pat[p].t = "ws" ->
                    here /\ (MatchAt(pat, p + 1, str, i + 1) \/ MatchAt(pat, p, str, i + 1))
              [] pat[p].t = "star" ->
                    MatchAt(pat, p + 1, str, i) \/ (here /\ MatchAt(pat, p, str, i + 1))

\* RegExp.prototype.test
test(pat, str) == \E i \in 1..(Len(str) + 1) : MatchAt(pat, 1, str, i)

\* The character U+2019 (right single quotation mark).
RightQuote == "U+2019"

PeuxTu == Lit(<<"p", "e", "u", "x">>) \o OneOf({"-", " "}) \o Lit(<<"t", "u">>)
MAider == Lit(<<"m">>) \o Opt({"'", " "}) \o Lit(<<"a", "i", "d", "e", "r">>)

CapabilityPatterns ==
    { Lit(<<"q", "u", "e">>) \o Ws \o PeuxTu \o Ws \o Lit(<<"f", "a", "i", "r", "e">>),
      Lit(<<"c", "o", "m", "m", "e", "n", "t">>) \o Ws \o PeuxTu \o Ws \o MAider,
      Lit(<<"q", "u">>) \o OneOf({"'", RightQuote}) \o Lit(<<"e", "s", "t", "-", "c", "e">>) \o Ws \o Lit(<<"q", "u", "e">>) \o Ws
          \o Lit(<<"t", "u">>) \o Ws \o Lit(<<"p", "e", "u", "x">>) \o Ws \o Lit(<<"f", "a", "i", "r", "e">>),
      PeuxTu \o Ws \o MAider,
      Lit(<<"w", "h", "a", "t">>) \o Ws \o Lit(<<"c", "a", "n">>) \o Ws \o Lit(<<"y", "o", "u">>) \o Ws \o Lit(<<"d", "o">>),
      Lit(<<"h", "o", "w">>) \o Ws \o Lit(<<"c", "a", "n">>) \o Ws \o Lit(<<"y", "o", "u">>) \o Ws \o Lit(<<"h", "e", "l", "p">>),
      Lit(<<"w", "h", "a", "t">>) \o Ws \o Lit(<<"c", "a", "n">>) \o Ws \o Lit(<<"y", "o", "u">>) \o Ws \o Lit(<<"h", "e", "l", "p">>) \o Ws
          \o Lit(<<"m", "e">>) \o Ws \o Lit(<<"w", "i", "t", "h">>),
      Lit(<<"c", "a", "p", "a", "b", "i", "l", "i", "t", "y">>),
      Lit(<<"c", "a", "p", "a", "b", "i", "l", "i", "t", "i", "e", "s">>) }

\* isCapabilityAsk: one of the patterns matches the trimmed, lowered text.
isCapabilityAsk(text) ==
    \E pat \in CapabilityPatterns : test(pat, toLowerCase(trim(text)))

----------------------------------------------------------------------------
\* route.ts: the article index

CACHE_TTL_MS == 3600000

\* String.prototype.split(sep) for a one-character separator: the fields
\* of str from position i on, empty ones included.
RECURSIVE SplitOn(_, _, _, _)
SplitOn(str, i, cur, sep) ==
    IF i > Len(str) THEN <<cur>>
    ELSE IF str[i] = sep
         THEN <<cur>> \o SplitOn(str, i + 1, <<>>, sep)
         ELSE SplitOn(str, i + 1, Append(cur, str[i]), sep)

\* csv.split(/\r?\n/): a carriage return right before a line feed belongs
\* to the separator.
SplitLines(csv) ==
    LET segs == SplitOn(csv, 1, <<>>, "\n")
    IN [k \in 1..Len(segs) |->
          IF k < Len(segs) /\ segs[k] # <<>> /\ segs[k][Len(segs[k])] = "\r"
          THEN SubSeq(segs[k], 1, Len(segs[k]) - 1)
          ELSE segs[k]]

\* Array.prototype.findIndex, counting from 1, given the set K of the
\* positions that pass the test; 0 when nothing is found.
FindIndex(K) ==
    IF K = {} THEN 0 ELSE CHOOSE i \in K : \A j \in K : i <= j

Max(a, b) == IF a > b THEN a ELSE b

\* One data line of the index: a row when it has enough columns and both
\* its title and its link are non-empty after trimming.
CsvRow(line, titleIdx, linkIdx) ==
    LET cols == SplitOn(line, 1, <<>>, ",")
    IN IF Len(cols) < Max(titleIdx, linkIdx) THEN <<>>
       ELSE LET title == trim(cols[titleIdx])
                link == trim(cols[linkIdx])
            IN IF title # <<>> /\ link # <<>>
               THEN << [title |-> title, link |-> link] >>
               ELSE <<>>

RECURSIVE CsvRows(_, _, _, _)
CsvRows(lines, i, titleIdx, linkIdx) ==
    IF i > Len(lines) THEN <<>>
    ELSE CsvRow(lines[i], titleIdx, linkIdx) \o CsvRows(lines, i + 1, titleIdx, linkIdx)

parseCsv(csv) ==
    LET lines == SelectSeq(SplitLines(csv), LAMBDA l : trim(l) # <<>>)
    IN IF Len(lines) < 2 THEN <<>>
       ELSE LET cells == SplitOn(lines[1], 1, <<>>, ",")
                header == [i \in 1..Len(cells) |-> toLowerCase(trim(cells[i]))]
                titleIdx == FindIndex({ i \in 1..Len(header) : startsWith(header[i], <<"t", "i", "t", "l", "e">>) })
                linkIdx == FindIndex({ i \in 1..Len(header) : header[i] \in {<<"l", "i", "n", "k">>, <<"u", "r", "l">>} })
            IN IF titleIdx = 0 \/ linkIdx = 0 THEN <<>>
               ELSE CsvRows(lines, 2, titleIdx, linkIdx)

\* cachedArticles is null until the first successful fetch of the index.
NullIndex == [isNull |-> TRUE, list |-> <<>>]

\* Mutant of IndexFresh: an empty list counts as no list.
IndexFreshNonEmpty(t) ==
    /\ ~cachedArticles.isNull
    /\ cachedArticles.list # <<>>
    /\ (t - lastFetch) < CACHE_TTL_MS

\* cachedArticles && (now - lastFetch) < CACHE_TTL_MS (route.ts:83), for
\* the value t that the call read from Date.now().
IndexFresh(t) == ~cachedArticles.isNull /\ (t - lastFetch) < CACHE_TTL_MS

----------------------------------------------------------------------------
\* route.ts: parsing the fusion model's reply

\* s.indexOf(pat, from), counting from 1; 0 when pat does not occur.
IndexOfFrom(s, pat, from) ==
    LET at == { i \in from..(Len(s) - Len(pat) + 1) : SubSeq(s, i, i + Len(pat) - 1) = pat }
    IN IF at = {} THEN 0 ELSE CHOOSE i \in at : \A j \in at : i <= j

\* s.lastIndexOf(pat), counting from 1; 0 when pat does not occur.
LastIndexOf(s, pat) ==
    LET at == { i \in 1..(Len(s) - Len(pat) + 1) : SubSeq(s, i, i + Len(pat) - 1) = pat }
    IN IF at = {} THEN 0 ELSE CHOOSE i \in at : \A j \in at : j <= i

\* The position after the whitespace that starts at position i.
RECURSIVE SkipWs(_, _)
SkipWs(s, i) == IF i <= Len(s) /\ s[i] \in Whitespace THEN SkipWs(s, i + 1) ELSE i

\* The backtick, which a TLA+ string cannot hold, and the fence of three.
Backtick == "U+0060"
Fence == <<Backtick, Backtick, Backtick>>

\* What a fence regular expression captures when matched at the fence at
\* position i: the text between position from (after the fence, optional
\* whitespace and, for the json fence, the word json and more whitespace)
\* and the next fence. The result is <<captured>>, or <<>> without a match.
FenceCapture(s, from) ==
    LET close == IndexOfFrom(s, Fence, from)
    IN IF close = 0 THEN <<>> ELSE << SubSeq(s, from, close - 1) >>

\* /FENCE\s*json\s*([\s\S]*?)FENCE/i at the fence at position i.
JsonFenceAt(s, i) ==
    LET w == SkipWs(s, i + 3)
    IN IF w + 3 <= Len(s) /\ toLowerCase(SubSeq(s, w, w + 3)) = <<"j", "s", "o", "n">>
       THEN FenceCapture(s, SkipWs(s, w + 4))
       ELSE <<>>

\* /FENCE\s*([\s\S]*?)FENCE/ at the fence at position i.
AnyFenceAt(s, i) == FenceCapture(s, SkipWs(s, i + 3))

\* String.prototype.match for one of the two fence expressions: the
\* capture of the leftmost match, as <<captured>>, or <<>> for null.
RECURSIVE FenceMatch(_, _, _)
FenceMatch(s, i, json) ==
    LET f == IndexOfFrom(s, Fence, i)
    IN IF f = 0 THEN <<>>
       ELSE LET m == IF json THEN JsonFenceAt(s, f) ELSE AnyFenceAt(s, f)
            IN IF m # <<>> THEN m ELSE FenceMatch(s, f + 1, json)

\* extractJsonCandidate (route.ts:154-165).
extractJsonCandidate(s) ==
    LET fencedJson == FenceMatch(s, 1, TRUE)
        fenced == FenceMatch(s, 1, FALSE)
        start == IndexOfFrom(s, <<"{">>, 1)
        end == LastIndexOf(s, <<"}">>)
    IN IF fencedJson # <<>> /\ fencedJson[1] # <<>> THEN trim(fencedJson[1])
       ELSE IF fenced # <<>> /\ fenced[1] # <<>> THEN trim(fenced[1])
       ELSE IF start # 0 /\ end # 0 /\ end > start THEN SubSeq(s, start, end)
       ELSE trim(s)

Backslash == "\\"
Quote == "\""

\* The characters of the negative lookahead (?!["\\\/bfnrtu]).
KeptAfterBackslash == {Quote, Backslash, "/", "b", "f", "n", "r", "t", "u"}

\* normalizeBackslashesForJson (route.ts:167-171): every backslash that is
\* not followed by one of the characters above is doubled; the search goes
\* on at the next character, which is examined in its turn.
RECURSIVE normalizeBackslashesForJson(_)
normalizeBackslashesForJson(s) ==
    IF s = <<>> THEN <<>>
    ELSE IF Head(s) = Backslash /\ ~(Len(s) > 1 /\ s[2] \in KeptAfterBackslash)
         THEN <<Backslash, Backslash>> \o normalizeBackslashesForJson(Tail(s))
         ELSE <<Head(s)>> \o normalizeBackslashesForJson(Tail(s))

\* JSON.parse, as far as whether and to what kind of value a text parses.
\* Every Parse... operator takes the position of the first character to
\* read and gives the position after what it read, or 0 for a SyntaxError.
HexDigits == SetOfChars(Digits) \cup SetOfChars(<<"a", "b", "c", "d", "e", "f", "A", "B", "C", "D", "E", "F">>)
EscapeChars == {Quote, Backslash, "/", "b", "f", "n", "r", "t"}
ControlChars == {"\t", "\n", "\r"}

RECURSIVE StringBody(_, _)
StringBody(s, i) ==
    IF i > Len(s) THEN 0
    ELSE IF s[i] = Quote THEN i + 1
    ELSE IF s[i] = Backslash
    THEN IF i + 1 > Len(s) THEN 0
         ELSE IF s[i + 1] \in EscapeChars THEN StringBody(s, i + 2)
         ELSE IF s[i + 1] = "u" /\ i + 5 <= Len(s)
                   /\ \A k \in 2..5 : s[i + k] \in HexDigits
              THEN StringBody(s, i + 6)
              ELSE 0
    ELSE IF s[i] \in ControlChars THEN 0
    ELSE StringBody(s, i + 1)

ParseString(s, i) == IF i <= Len(s) /\ s[i] = Quote THEN StringBody(s, i + 1) ELSE 0

\* The position after the digits that start at position i.
RECURSIVE SkipDigits(_, _)
SkipDigits(s, i) ==
    IF i <= Len(s) /\ s[i] \in SetOfChars(Digits) THEN SkipDigits(s, i + 1) ELSE i

\* -?(0|[1-9][0-9]*)(\.[0-9]+)?([eE][+-]?[0-9]+)?
ParseNumber(s, i) ==
    LET d == IF i <= Len(s) /\ s[i] = "-" THEN i + 1 ELSE i
        int == IF d <= Len(s) /\ s[d] = "0" THEN d + 1 ELSE SkipDigits(s, d)
        frac == IF int <= Len(s) /\ s[int] = "."
                THEN (IF SkipDigits(s, int + 1) = int + 1 THEN 0 ELSE SkipDigits(s, int + 1))
                ELSE int
        sign == IF frac # 0 /\ frac + 1 <= Len(s) /\ s[frac + 1] \in {"+", "-"}
                THEN frac + 2 ELSE frac + 1
        exp == IF frac # 0 /\ frac <= Len(s) /\ s[frac] \in {"e", "E"}
               THEN (IF SkipDigits(s, sign) = sign THEN 0 ELSE SkipDigits(s, sign))
               ELSE frac
    IN IF int = d THEN 0 ELSE exp

ParseLiteral(s, i, word) ==
    IF i + Len(word) - 1 <= Len(s) /\ SubSeq(s, i, i + Len(word) - 1) = word
    THEN i + Len(word) ELSE 0

RECURSIVE ParseValue(_, _)
RECURSIVE ParseMembers(_, _)
RECURSIVE ParseElements(_, _)

ParseValue(s, i0) ==
    LET i == SkipWs(s, i0)
    IN IF i > Len(s) THEN 0
       ELSE CASE s[i] = Quote -> ParseString(s, i)
              [] s[i] = "{" ->
                    LET j == SkipWs(s, i + 1)
                    IN IF j <= Len(s) /\ s[j] = "}" THEN j + 1 ELSE ParseMembers(s, j)
              [] s[i] = "[" ->
                    LET j == SkipWs(s, i + 1)
                    IN IF j <= Len(s) /\ s[j] = "]" THEN j + 1 ELSE ParseElements(s, j)
              [] s[i] \in SetOfChars(Digits) \cup {"-"} -> ParseNumber(s, i)
              [] s[i] = "t" -> ParseLiteral(s, i, <<"t", "r", "u", "e">>)
              [] s[i] = "f" -> ParseLiteral(s, i, <<"f", "a", "l", "s", "e">>)
              [] s[i] = "n" -> ParseLiteral(s, i, <<"n", "u", "l", "l">>)
              [] OTHER -> 0

\* The members of an object from the key at position i on, up to its }.
ParseMembers(s, i) ==
    LET k == ParseString(s, i)
        c == SkipWs(s, k)
        v == IF k # 0 /\ c <= Len(s) /\ s[c] = ":" THEN ParseValue(s, c + 1) ELSE 0
        e == SkipWs(s, v)
    IN IF v = 0 \/ e > Len(s) THEN 0
       ELSE IF s[e] = "}" THEN e + 1
       ELSE IF s[e] = "," THEN ParseMembers(s, SkipWs(s, e + 1))
       ELSE 0

\* The elements of an array from the value at position i on, up to its ].
ParseElements(s, i) ==
    LET v == ParseValue(s, i)
        e == SkipWs(s, v)
    IN IF v = 0 \/ e > Len(s) THEN 0
       ELSE IF s[e] = "]" THEN e + 1
       ELSE IF s[e] = "," THEN ParseElements(s, e + 1)
       ELSE 0

\* JSON.parse(s): "error" for a SyntaxError, else the kind of the value,
\* a falsy value (null, false, 0, "") being "falsy".
JsonParse(s) ==
    LET i == SkipWs(s, 1)
        v == ParseValue(s, 1)
    IN IF v = 0 \/ SkipWs(s, v) # Len(s) + 1 THEN "error"
       ELSE CASE s[i] = "{" -> "object"
              [] s[i] = "[" -> "array"
              [] s[i] = "t" -> "true"
              [] s[i] \in {"n", "f"} -> "falsy"
              [] s[i] = Quote -> IF v = i + 2 THEN "falsy" ELSE "string"
              [] OTHER ->
                    IF \A k \in i..(v - 1) : s[k] \in {"-", "0", ".", "e", "E", "+"}
                    THEN "falsy" ELSE "number"

\* Mutant of FusedParseAttempts: the repaired text is parsed whether or
\* not the first parse failed.
FusedParseAttemptsBoth(fusedRaw) ==
    << extractJsonCandidate(fusedRaw),
       normalizeBackslashesForJson(extractJsonCandidate(fusedRaw)) >>

\* The texts given to JSON.parse for one reply, in order (route.ts:292-298).
FusedParseAttempts(fusedRaw) ==
    LET candidate == extractJsonCandidate(fusedRaw)
    IN IF JsonParse(candidate) # "error"
       THEN <<candidate>>
       ELSE <<candidate, normalizeBackslashesForJson(candidate)>>

\* The parse of the fusion reply (route.ts:289-305): how fusedObj was
\* obtained ("parsed" at the first attempt, "repaired" after the backslash
\* repair, "null" when both attempts threw) and the kind of its value.
FusedParse(fusedRaw) ==
    LET candidate == extractJsonCandidate(fusedRaw)
        normalized == normalizeBackslashesForJson(candidate)
    IN IF JsonParse(candidate) # "error"
       THEN [how |-> "parsed", kind |-> JsonParse(candidate)]
       ELSE IF JsonParse(normalized) # "error"
       THEN [how |-> "repaired", kind |-> JsonParse(normalized)]
       ELSE [how |-> "null", kind |-> "none"]

\* No text function is being applied.
TxtIdle == [pc |-> "idle", fn |-> "none", arg |-> <<>>, out |-> "none"]

\* The characters the string of a model reply is drawn from: the
\* backslash, a letter that follows it in no escape, one that does, the u
\* of a unicode escape and a hexadecimal digit.
JsonBodyChars == {Backslash, "q", "n", "u", "0"}
MaxBodyLen == 5

\* The object {"t":"body"} as text.
ObjectOpen == <<"{", "\"", "t", "\"", ":", "\"">>
ObjectClose == <<"\"", "}">>
ObjectWith(body) == ObjectOpen \o body \o ObjectClose

\* The ways the model wraps its object: bare, inside prose, in a json fence.
Wrap(w, text) ==
    CASE w = "bare" -> text
      [] w = "prose" -> <<"H", "e", "r", "e", " ", "i", "t", " ", "i", "s", ":", " ">> \o text \o <<" ", "D", "o", "n", "e", ".">>
      [] w = "fence" -> Fence \o <<"J", "S", "O", "N", "\n">> \o text \o <<"\n">> \o Fence

\* Replies that hold nothing like JSON, or a value that is no object.
PlainReplies ==
    { <<>>, <<"S", "o", "r", "r", "y", ",", " ", "n", "o", ".">>, <<"n", "u", "l", "l">>, <<"1", "2">>, <<"0", ".", "0">>, <<"-", "1", "e", "2">>, <<"t", "r", "u", "e">>, <<"[", "1", ",", " ", "\"", "a", "\"", "]">>,
      <<"{">>, <<"}", "{">>, Fence \o Fence, Fence \o <<"j", "s", "o", "n", " ">> \o Fence \o <<" ", "{", "}">> }

FusedRawChoices ==
    { Wrap(w, ObjectWith(b)) : w \in {"bare", "prose", "fence"},
                               b \in SeqsUpTo(JsonBodyChars, MaxBodyLen) }
        \cup PlainReplies

TxtInputs ==
    { [pc |-> "drawn", fn |-> "FusedParse", arg |-> r, out |-> "none"] :
         r \in FusedRawChoices }

\* The reply goes through extraction, parse, repair and second parse.
ApplyFusedParse ==
    /\ txt.pc = "drawn"
    /\ txt.fn = "FusedParse"
    /\ txt' = [txt EXCEPT !.pc = "done", !.out = FusedParse(txt.arg)]
    /\ UNCHANGED <<now, scrapedCache, htmlCache, calls, cachedArticles, lastFetch, turn, gets, rank, fus>>

----------------------------------------------------------------------------
\* part_008 (the suggestions route): its own reading of the index

HttpPrefixes == { <<"h", "t", "t", "p", ":", "/", "/">>, <<"h", "t", "t", "p", "s", ":", "/", "/">> }

\* ,(https?:\/\/.+)$ matches from the comma at position p to the end.
LinkAfterComma(line, p) ==
    /\ p <= Len(line)
    /\ line[p] = ","
    /\ \E h \in HttpPrefixes :
          /\ Len(line) >= p + Len(h) + 1
          /\ SubSeq(line, p + 1, p + Len(h)) = h

\* The dot of a regular expression matches no line terminator.
NoTerminator(line) == \A i \in 1..Len(line) : line[i] \notin {"\r", "\n"}

\* title.replace(/^"|"$/g, '')
StripQuotes(s) ==
    LET a == IF s # <<>> /\ Head(s) = Quote THEN Tail(s) ELSE s
    IN IF a # <<>> /\ a[Len(a)] = Quote THEN SubSeq(a, 1, Len(a) - 1) ELSE a

SuggestionRow(Title, Link) ==
    IF Title # <<>> /\ Link # <<>> THEN << [Title |-> Title, Link |-> Link] >> ELSE <<>>

\* One line (part_008:28-42): the quoted form /^"(.*)",(https?:\/\/.+)$/,
\* greedy, then the plain form /^(.*?),(https?:\/\/.+)$/, lazy.
SuggestionLine(l) ==
    LET quoted == IF l # <<>> /\ Head(l) = Quote /\ NoTerminator(l)
                  THEN { p \in 3..Len(l) : l[p - 1] = Quote /\ LinkAfterComma(l, p) }
                  ELSE {}
        plain == IF NoTerminator(l) THEN { p \in 1..Len(l) : LinkAfterComma(l, p) } ELSE {}
        q == CHOOSE p \in quoted : \A r \in quoted : r <= p
        c == CHOOSE p \in plain : \A r \in plain : p <= r
    IN IF quoted # {}
       THEN SuggestionRow(trim(SubSeq(l, 2, q - 2)), trim(SubSeq(l, q + 1, Len(l))))
       ELSE IF plain # {}
       THEN SuggestionRow(trim(StripQuotes(SubSeq(l, 1, c - 1))), trim(SubSeq(l, c + 1, Len(l))))
       ELSE <<>>

RECURSIVE SuggestionRows(_, _)
SuggestionRows(lines, i) ==
    IF i > Len(lines) THEN <<>>
    ELSE SuggestionLine(lines[i]) \o SuggestionRows(lines, i + 1)

\* /title\s*,\s*link/i
TitleLinkHeader == Lit(<<"t", "i", "t", "l", "e">>) \o WsStar \o Lit(<<",">>) \o WsStar \o Lit(<<"l", "i", "n", "k">>)

\* parseCsv of part_008 (lines 22-45).
suggestionsParseCsv(text) ==
    LET lines == SelectSeq(SplitLines(text), LAMBDA l : trim(l) # <<>>)
    IN IF lines = <<>> THEN <<>>
       ELSE IF test(TitleLinkHeader, toLowerCase(lines[1]))
       THEN SuggestionRows(lines, 2)
       ELSE SuggestionRows(lines, 1)

\* The well-formed rows a CSV is made of: the line, and the title and link
\* it stands for.
MaxCsvRows == 3

WellFormedRows ==
    { [line |-> <<"A", ",", "h", "t", "t", "p", "s", ":", "/", "/", "x", ".", "t", "e", "s", "t", "/", "1">>, title |-> <<"A">>, link |-> <<"h", "t", "t", "p", "s", ":", "/", "/", "x", ".", "t", "e", "s", "t", "/", "1">>],
      [line |-> <<"\"", "A", ",", " ", "B", "\"", ",", "h", "t", "t", "p", "s", ":", "/", "/", "x", ".", "t", "e", "s", "t", "/", "1">>, title |-> <<"A", ",", " ", "B">>, link |-> <<"h", "t", "t", "p", "s", ":", "/", "/", "x", ".", "t", "e", "s", "t", "/", "1">>],
      [line |-> <<"C", " ", "d", ",", "h", "t", "t", "p", ":", "/", "/", "y", ".", "t", "e", "s", "t", "/", "2">>, title |-> <<"C", " ", "d">>, link |-> <<"h", "t", "t", "p", ":", "/", "/", "y", ".", "t", "e", "s", "t", "/", "2">>] }

RECURSIVE JoinLines(_, _)
JoinLines(rows, eol) ==
    IF rows = <<>> THEN <<>>
    ELSE Head(rows).line \o eol \o JoinLines(Tail(rows), eol)

\* The text of a CSV with the header Title,Link and the rows.
CsvText(rows, eol) == <<"T", "i", "t", "l", "e", ",", "L", "i", "n", "k">> \o eol \o JoinLines(rows, eol)

CsvInputs ==
    { [pc |-> "drawn", fn |-> "parseCsv", arg |-> [rows |-> rows, eol |-> eol],
       out |-> "none"] :
         rows \in SeqsUpTo(WellFormedRows, MaxCsvRows), eol \in { <<"\n">>, <<"\r", "\n">> } }

\* The chat route reads the CSV.
ApplyParseCsv ==
    /\ txt.pc = "drawn"
    /\ txt.fn = "parseCsv"
    /\ txt' = [txt EXCEPT !.pc = "done",
                          !.out = parseCsv(CsvText(txt.arg.rows, txt.arg.eol))]
    /\ UNCHANGED <<now, scrapedCache, htmlCache, calls, cachedArticles, lastFetch, turn, gets, rank, fus>>

\* The suggestions route reads the CSV.
ApplySuggestionsParseCsv ==
    /\ txt.pc = "drawn"
    /\ txt.fn = "parseCsv"
    /\ txt' = [txt EXCEPT !.pc = "done", !.fn = "suggestions",
                          !.out = suggestionsParseCsv(CsvText(txt.arg.rows, txt.arg.eol))]
    /\ UNCHANGED <<now, scrapedCache, htmlCache, calls, cachedArticles, lastFetch, turn, gets, rank, fus>>

----------------------------------------------------------------------------
\* route.ts: the chat handler POST

MaxTurns == 2            \* requests handled, one after the other
MaxArticlesEnv == 2      \* SPACE_BIO_MAX_ARTICLES as configured
FuseMaxEnv == 1          \* SPACE_BIO_FUSE_MAX as configured

\* The handler awaits one batch call at a time.
HandlerCall == 1

\* { perArticleNodeLimit: 60, perArticleFigureLimit: 8 }
HandlerHtmlOpts == [perArticleNodeLimit |-> 60, perArticleFigureLimit |-> 8]

FallbackFiguresMax == 8

\* The last user message of the requests the handler is tried on.
ChatTexts ==
    { <<"h", "i">>, <<"H", "i", " ", "I", "S", "S">>, <<"c", "a", "p", "a", "b", "i", "l", "i", "t", "y">>, <<"w", "h", "a", "t", " ", "c", "a", "n", " ", "y", "o", "u", " ", " ", "d", "o", " ", "o", "n", " ", "t", "h", "e", " ", "i", "s", "s">>, <<"r", "a", "t">> }

\* Texts for every combination of the three intent tests.
IntentTexts ==
    ChatTexts \cup
    { <<"i", "s", "s">>, <<"h", "e", "l", "l", "o", ",", " ", "w", "h", "a", "t", " ", "c", "a", "n", " ", "y", "o", "u", " ", "d", "o", "?">>,
      <<"B", "o", "n", "j", "o", "u", "r", ",", " ", "q", "u", "e", " ", "p", "e", "u", "x", "-", "t", "u", " ", "f", "a", "i", "r", "e", " ", "e", "n", " ", "m", "i", "c", "r", "o", "g", "r", "a", "v", "i", "t", "é">> }

NoReq ==
    [apiKey |-> FALSE, body |-> "none", userText |-> <<>>, summarize |-> FALSE,
     fusionModel |-> FALSE]

\* A request and the environment it is served in: whether the API key and
\* the fusion model are configured, whether the body is JSON ("invalid"
\* when not) and has messages ("empty" when not), its last message and its
\* summarize flag.
Requests ==
    { [apiKey |-> TRUE, body |-> "messages", userText |-> t, summarize |-> s,
       fusionModel |-> f] : t \in ChatTexts, s \in BOOLEAN, f \in BOOLEAN }
      \cup { [NoReq EXCEPT !.body = "messages"],
             [NoReq EXCEPT !.apiKey = TRUE, !.body = "invalid"],
             [NoReq EXCEPT !.apiKey = TRUE, !.body = "empty"] }

\* Requests that pass the entry checks, one for every text of IntentTexts.
RouteRequests ==
    { [apiKey |-> TRUE, body |-> "messages", userText |-> t, summarize |-> s,
       fusionModel |-> f] : t \in IntentTexts, s \in BOOLEAN, f \in BOOLEAN }

\* What the translation model can answer, besides failing.
EnglishRatCat == <<"r", "a", "t", " ", "c", "a", "t">>

\* The ways the fetch of the index can end.
CsvTwoRows == <<"T", "i", "t", "l", "e", ",", "L", "i", "n", "k", "\r", "\n", "i", "s", "s", " ", "r", "a", "t", ",", "u", "1", "\n", "c", "a", "t", ",", "u", "2", "\n">>
CsvHeaderOnly == <<"T", "i", "t", "l", "e", ",", "L", "i", "n", "k", "\n">>

CsvOutcomes ==
    { [kind |-> "ok", csv |-> CsvTwoRows],
      [kind |-> "ok", csv |-> CsvHeaderOnly],
      [kind |-> "non2xx", csv |-> <<>>],
      [kind |-> "throw", csv |-> <<>>] }

\* The pages the articles of the index can hold: one with text and an
\* image, one with an image only.
ChatPages ==
    { [text |-> "body1", images |-> <<Image(1, <<"r", "a", "t">>)>>],
      [text |-> "", images |-> <<Image(2, Str_a)>>] }

ChatFetchOutcomes ==
    { [kind |-> "ok", page |-> p] : p \in ChatPages }
        \cup { [kind |-> "non2xx", page |-> [text |-> "", images |-> <<>>]],
               [kind |-> "throw", page |-> [text |-> "", images |-> <<>>]] }

\* The ways a call to the completion endpoint can end: the fetch rejects,
\* or it resolves with a non-2xx or a 2xx status; reading the body
\* (text() on a non-2xx, json() on a 2xx) can reject in its turn.
LlmOutcomes ==
    { [kind |-> "throw", body |-> ""],
      [kind |-> "non2xx", body |-> "ok"],
      [kind |-> "non2xx", body |-> "throw"],
      [kind |-> "ok", body |-> "ok"],
      [kind |-> "ok", body |-> "throw"] }

SectionRat ==
    [heading |-> "Introduction", text_markdown |-> <<"r", "a", "t">>,
     imageRefs |-> << Ref(1, 0, Str_empty, 0), Ref(2, 0, Str_a, 0) >>]

\* The content of a 2xx JSON answer of the fusion model: the text of the
\* reply, cut down to one string value that decides how it parses (at
\* once, after the backslash repair, or not at all), the sections the
\* parsed object holds, and whether every section is an object the
\* resolution can read; with them, the texts the handler gives to
\* JSON.parse for that reply and what comes of them (fusedObj).
FusionReply(raw, sections, wellFormed) ==
    [raw |-> raw, sections |-> sections, wellFormed |-> wellFormed,
     attempts |-> FusedParseAttempts(raw), fusedObj |-> FusedParse(raw)]

FusionContents ==
    { FusionReply(<<"{", "\"", "t", "\"", ":", "\"", "\\", "u", "\"", "}">>, <<>>, TRUE),
      FusionReply(<<"{", "\"", "t", "\"", ":", "\"", "a", "\"", "}">>, <<>>, TRUE),
      FusionReply(<<"{", "\"", "t", "\"", ":", "\"", "a", "\"", "}">>, <<SectionRat>>, FALSE),
      FusionReply(<<"{", "\"", "t", "\"", ":", "\"", "a", "\"", "}">>, <<SectionRat>>, TRUE),
      FusionReply(<<"{", "\"", "t", "\"", ":", "\"", "\\", "q", "\"", "}">>, <<SectionRat, Conclusion>>, TRUE) }

NoContent ==
    [raw |-> <<>>, sections |-> <<>>, wellFormed |-> TRUE,
     attempts |-> <<>>, fusedObj |-> FusedParse(<<>>)]

FusionOutcomes ==
    { [kind |-> o.kind, body |-> o.body, content |-> NoContent] :
         o \in LlmOutcomes \ {[kind |-> "ok", body |-> "ok"]} }
      \cup { [kind |-> "ok", body |-> "ok", content |-> c] : c \in FusionContents }

\* Mutant of FusionEnd: an answer without sections counts as resolved.
FusionEndEmptyResolved(o) ==
    CASE o.kind = "throw" -> "throw"
      [] o.kind = "non2xx" /\ o.body = "throw" -> "throw_text"
      [] o.kind = "non2xx" -> "non2xx"
      [] o.body = "throw" -> "not_json"
      [] o.content.fusedObj.kind \in {"none", "falsy"} -> "unparseable"
      [] o.content.fusedObj.kind # "object" -> "no_sections"
      [] ~o.content.wellFormed -> "malformed"
      [] OTHER -> "resolved"

\* How the fusion attempt ended (route.ts:265-341).
FusionEnd(o) ==
    CASE o.kind = "throw" -> "throw"
      [] o.kind = "non2xx" /\ o.body = "throw" -> "throw_text"
      [] o.kind = "non2xx" -> "non2xx"
      [] o.body = "throw" -> "not_json"
      [] o.content.fusedObj.kind \in {"none", "falsy"} -> "unparseable"
      [] o.content.fusedObj.kind # "object" -> "no_sections"
      [] ~o.content.wellFormed -> "malformed"
      [] o.content.sections = <<>> -> "no_sections"
      [] OTHER -> "resolved"

\* The ends of a fusion call that leave through the outer catch: the await
\* of fetch, of fusionResp.json() and of fusionResp.text() stand outside
\* the inner try.
FusionEscapes == {"throw", "throw_text", "not_json"}

\* A response: its status, the mode field of its JSON body ("" when the
\* body has none), its error field, its articles, and the sections of a
\* fused answer or the per-article html of a scraped one.
NoResponse ==
    [status |-> 0, mode |-> "", error |-> "", articles |-> <<>>,
     sections |-> <<>>, html |-> <<>>]

Json(mode) == [NoResponse EXCEPT !.status = 200, !.mode = mode]
Error(status, error) == [NoResponse EXCEPT !.status = status, !.error = error]

\* The outer catch (route.ts:452-455).
ServerError == Error(500, "Server error")

\* One invocation of POST: where it stands (pc), the request, and its
\* locals; index, fusion and html record how each stage ended, fusionData
\* is the content of the fusion model's answer, parses the texts given to
\* JSON.parse.
TurnIdle ==
    [pc |-> "idle", n |-> 0, req |-> NoReq, englishQuery |-> <<>>,
     path |-> "none", t0 |-> 0, index |-> "none", articles |-> <<>>,
     relatedArticles |-> <<>>, fuseTargets |-> <<>>, docsForPrompt |-> <<>>,
     fusion |-> "none", fusionData |-> NoContent, parses |-> <<>>,
     html |-> "none", scraped |-> <<>>,
     response |-> NoResponse]

\* What the handler leaves alone.
outsideHandler == <<gets, rank, fus, txt>>

\* Mutant of Receive: the check of the API key is missing.
ReceiveWithoutKeyCheck(r) ==
    /\ turn.pc = "idle"
    /\ turn' =
         IF r.body = "invalid"
         THEN [turn EXCEPT !.pc = "done", !.req = r, !.response = ServerError]
         ELSE IF r.body = "empty"
         THEN [turn EXCEPT !.pc = "done", !.req = r,
                  !.response = Error(400, "messages array required")]
         ELSE [turn EXCEPT !.pc = "translate", !.req = r]
    /\ UNCHANGED <<now, scrapedCache, htmlCache, calls, cachedArticles, lastFetch>>
    /\ UNCHANGED outsideHandler

\* The handler is invoked: configuration and body checks (route.ts:176-189).
Receive(r) ==
    /\ turn.pc = "idle"
    /\ turn' =
         IF ~r.apiKey
         THEN [turn EXCEPT !.pc = "done", !.req = r,
                  !.response = Error(500, "Missing OPENROUTER_API_KEY on server")]
         ELSE IF r.body = "invalid"
         THEN [turn EXCEPT !.pc = "done", !.req = r, !.response = ServerError]
         ELSE IF r.body = "empty"
         THEN [turn EXCEPT !.pc = "done", !.req = r,
                  !.response = Error(400, "messages array required")]
         ELSE [turn EXCEPT !.pc = "translate", !.req = r]
    /\ UNCHANGED <<now, scrapedCache, htmlCache, calls, cachedArticles, lastFetch>>
    /\ UNCHANGED outsideHandler

\* translateToEnglish returns: the model's text, or the input when the
\* call failed or answered nothing.
TranslateSettle(q) ==
    /\ turn.pc = "translate"
    /\ q \in {turn.req.userText, EnglishRatCat}
    /\ turn' = [turn EXCEPT !.pc = "route", !.englishQuery = q]
    /\ UNCHANGED <<now, scrapedCache, htmlCache, calls, cachedArticles, lastFetch>>
    /\ UNCHANGED outsideHandler

\* Mutant of Intent: the first matching category wins, in the order
\* greeting, capability, domain, generic.
IntentFirstMatch(text) ==
    IF isGreeting(text) THEN "chitchat"
    ELSE IF isCapabilityAsk(text) THEN "capability"
    ELSE IF isSpaceBiologyQuery(text) THEN "domain"
    ELSE "generic"

\* Mutant of Intent: a text that matches nothing is taken
\* for a domain query.
IntentDomainByDefault(text) ==
    IF isGreeting(text) /\ ~isSpaceBiologyQuery(text) /\ ~isCapabilityAsk(text)
    THEN "chitchat"
    ELSE IF isCapabilityAsk(text) THEN "capability"
    ELSE "domain"

\* The branch the handler takes for a text (route.ts:200-233): the
\* greeting answer only for a greeting that is neither a domain query nor
\* a capability question, then capability, then domain, else none of them.
Intent(text) ==
    IF isGreeting(text) /\ ~isSpaceBiologyQuery(text) /\ ~isCapabilityAsk(text)
    THEN "chitchat"
    ELSE IF isCapabilityAsk(text) THEN "capability"
    ELSE IF isSpaceBiologyQuery(text) THEN "domain"
    ELSE "generic"

\* Intent routing (route.ts:200-233).
Route ==
    /\ turn.pc = "route"
    /\ LET intent == Intent(turn.req.userText)
       IN turn' =
            CASE intent = "chitchat" ->
                    [turn EXCEPT !.pc = "done", !.path = "chitchat",
                        !.response = Json("chitchat")]
              [] intent = "capability" /\ isSpaceBiologyQuery(turn.req.userText) ->
                    [turn EXCEPT !.pc = "get_articles", !.path = "capability"]
              [] intent = "capability" ->
                    [turn EXCEPT !.pc = "done", !.path = "capability",
                        !.response = Json("capabilities")]
              [] intent = "domain" ->
                    [turn EXCEPT !.pc = "get_articles", !.path = "domain"]
              [] OTHER -> [turn EXCEPT !.pc = "tail", !.path = "generic"]
    /\ UNCHANGED <<now, scrapedCache, htmlCache, calls, cachedArticles, lastFetch>>
    /\ UNCHANGED outsideHandler

\* getArticles up to its fetch (route.ts:82-85).
GetArticlesBegin ==
    /\ turn.pc = "get_articles"
    /\ turn' =
         IF IndexFresh(now)
         THEN [turn EXCEPT !.pc = "ranking", !.index = "cached",
                  !.articles = cachedArticles.list]
         ELSE [turn EXCEPT !.pc = "csv", !.t0 = now]
    /\ UNCHANGED <<now, scrapedCache, htmlCache, calls, cachedArticles, lastFetch>>
    /\ UNCHANGED outsideHandler

\* getArticles after its fetch (route.ts:85-90): a rejection leaves through
\* the handler's outer catch, a non-2xx answer gives [] and stores nothing,
\* a 2xx answer is parsed and stored with the time of the call's start.
CsvSettle(o) ==
    /\ turn.pc = "csv"
    /\ CASE o.kind = "throw" ->
              /\ turn' = [turn EXCEPT !.pc = "done", !.index = "throw",
                             !.response = ServerError]
              /\ UNCHANGED <<cachedArticles, lastFetch>>
         [] o.kind = "non2xx" ->
              /\ turn' = [turn EXCEPT !.pc = "ranking", !.index = "non2xx",
                             !.articles = <<>>]
              /\ UNCHANGED <<cachedArticles, lastFetch>>
         [] o.kind = "ok" ->
              /\ cachedArticles' = [isNull |-> FALSE, list |-> parseCsv(o.csv)]
              /\ lastFetch' = turn.t0
              /\ turn' = [turn EXCEPT !.pc = "ranking", !.index = "fetched",
                             !.articles = parseCsv(o.csv)]
    /\ UNCHANGED <<now, scrapedCache, htmlCache, calls>>
    /\ UNCHANGED outsideHandler

\* Mutant of Select: without summarize the selected articles are returned
\* at once as a list, as the handler once did.
SelectArticlesOnly ==
    /\ turn.pc = "ranking"
    /\ turn' =
         IF turn.path = "capability"
         THEN [turn EXCEPT !.pc = "done",
                  !.response = [Json("capabilities") EXCEPT !.articles =
                       IF turn.articles # <<>>
                       THEN capabilityRank(turn.englishQuery, turn.articles)
                       ELSE turn.articles]]
         ELSE IF turn.articles = <<>>
         THEN [turn EXCEPT !.pc = "tail"]
         ELSE LET top == domainRank(turn.englishQuery, turn.articles, MaxArticlesEnv)
              IN IF turn.req.summarize
                 THEN [turn EXCEPT !.pc = "tail", !.relatedArticles = top]
                 ELSE [turn EXCEPT !.pc = "done", !.relatedArticles = top,
                          !.response = [Json("articles_only") EXCEPT !.articles = top]]
    /\ UNCHANGED <<now, scrapedCache, htmlCache, calls, cachedArticles, lastFetch>>
    /\ UNCHANGED outsideHandler

\* What follows getArticles: the capability answer (route.ts:215-225), or
\* the domain branch's selection and the start of the scrape for fusion
\* (route.ts:235-252).
Select ==
    /\ turn.pc = "ranking"
    /\ IF turn.path = "capability"
       THEN /\ turn' = [turn EXCEPT !.pc = "done",
                  !.response = [Json("capabilities") EXCEPT !.articles =
                       IF turn.articles # <<>>
                       THEN capabilityRank(turn.englishQuery, turn.articles)
                       ELSE turn.articles]]
            /\ UNCHANGED calls
       ELSE IF turn.articles = <<>>
       THEN /\ turn' = [turn EXCEPT !.pc = "tail"]
            /\ UNCHANGED calls
       ELSE LET top == domainRank(turn.englishQuery, turn.articles, MaxArticlesEnv)
                fuseTargets == Slice0(top, FuseMaxEnv)
            IN IF turn.req.summarize
               THEN /\ turn' = [turn EXCEPT !.pc = "tail", !.relatedArticles = top]
                    /\ UNCHANGED calls
               ELSE /\ turn' = [turn EXCEPT !.pc = "fusion_scrape",
                                   !.relatedArticles = top,
                                   !.fuseTargets = fuseTargets]
                    /\ calls' = [calls EXCEPT ![HandlerCall] = TextCall(fuseTargets, now)]
    /\ UNCHANGED <<now, scrapedCache, htmlCache, cachedArticles, lastFetch>>
    /\ UNCHANGED outsideHandler

\* batchScrape(fuseTargets) has resolved (route.ts:252-262): the documents
\* of the prompt are built; without a fusion model the handler goes on to
\* batchScrapeHtml (route.ts:344).
FusionScraped ==
    /\ turn.pc = "fusion_scrape"
    /\ calls[HandlerCall].kind = "text" /\ calls[HandlerCall].done
    /\ LET docs == docsForPrompt(calls[HandlerCall].result)
       IN IF turn.req.fusionModel
          THEN /\ turn' = [turn EXCEPT !.pc = "fusion_call", !.docsForPrompt = docs]
               /\ calls' = [calls EXCEPT ![HandlerCall] = Idle]
          ELSE /\ turn' = [turn EXCEPT !.pc = "html", !.docsForPrompt = docs,
                              !.fusion = "skipped"]
               /\ calls' = [calls EXCEPT ![HandlerCall] =
                               HtmlCall(turn.relatedArticles, HandlerHtmlOpts, now)]
    /\ UNCHANGED <<now, scrapedCache, htmlCache, cachedArticles, lastFetch>>
    /\ UNCHANGED outsideHandler

\* The fusion call has ended (route.ts:265-344).
FusionSettle(o) ==
    /\ turn.pc = "fusion_call"
    /\ LET end == FusionEnd(o)
           parses == o.content.attempts
       IN IF end \in FusionEscapes
          THEN /\ turn' = [turn EXCEPT !.pc = "done", !.fusion = end,
                              !.response = ServerError]
               /\ UNCHANGED calls
          ELSE IF end = "resolved"
          THEN /\ turn' = [turn EXCEPT !.pc = "done", !.fusion = end,
                     !.fusionData = o.content, !.parses = parses,
                     !.response = [Json("fused_json") EXCEPT
                         !.sections = ResolveSections(turn.docsForPrompt,
                                          turn.englishQuery, o.content.sections),
                         !.articles = turn.fuseTargets]]
               /\ UNCHANGED calls
          ELSE /\ turn' = [turn EXCEPT !.pc = "html", !.fusion = end,
                              !.fusionData = o.content, !.parses = parses]
               /\ calls' = [calls EXCEPT ![HandlerCall] =
                               HtmlCall(turn.relatedArticles, HandlerHtmlOpts, now)]
    /\ UNCHANGED <<now, scrapedCache, htmlCache, cachedArticles, lastFetch>>
    /\ UNCHANGED outsideHandler

\* combinedHtml: one <section> per returned section, numbered from 1.
combinedHtml(sections) ==
    [i \in 1..Len(sections) |->
        [idx |-> i, title |-> sections[i].article.title,
         link |-> sections[i].article.link, body |-> sections[i].html]]

\* batchScrapeHtml has resolved (route.ts:344-355).
HtmlScraped ==
    /\ turn.pc = "html"
    /\ calls[HandlerCall].kind = "html" /\ calls[HandlerCall].done
    /\ LET sections == calls[HandlerCall].result
       IN IF Len(sections) > 0
          THEN /\ turn' = [turn EXCEPT !.pc = "done", !.html = "resolved",
                     !.response = [Json("scraped") EXCEPT
                         !.html = combinedHtml(sections),
                         !.articles = [i \in 1..Len(sections) |-> sections[i].article]]]
               /\ calls' = [calls EXCEPT ![HandlerCall] = Idle]
          ELSE /\ turn' = [turn EXCEPT !.pc = "fallback", !.html = "failed"]
               /\ calls' = [calls EXCEPT ![HandlerCall] =
                               TextCall(turn.relatedArticles, now)]
    /\ UNCHANGED <<now, scrapedCache, htmlCache, cachedArticles, lastFetch>>
    /\ UNCHANGED outsideHandler

\* The figures of one article of the fallback (route.ts:361-365).
FallbackFigs(s) ==
    LET imgs == Slice0(s.images, FallbackFiguresMax)
    IN [j \in 1..Len(imgs) |->
          [src |-> proxyUrl(imgs[j].src), alt |-> imgs[j].alt,
           caption |-> imgs[j].caption]]

\* Mutant of built: an article's body is its paragraphs alone.
builtTextOnly(scrapedFallback) ==
    SelectSeq([i \in 1..Len(scrapedFallback) |->
                  [idx |-> i, title |-> scrapedFallback[i].title,
                   link |-> scrapedFallback[i].link,
                   paras |-> scrapedFallback[i].text,
                   figs |-> FallbackFigs(scrapedFallback[i])]],
              LAMBDA b : b.paras # "")

\* built (route.ts:357-374): one <section> per article whose body
\* (paragraphs of its text, then its figures) is not empty, numbered by the
\* article's position.
built(scrapedFallback) ==
    SelectSeq([i \in 1..Len(scrapedFallback) |->
                  [idx |-> i, title |-> scrapedFallback[i].title,
                   link |-> scrapedFallback[i].link,
                   paras |-> scrapedFallback[i].text,
                   figs |-> FallbackFigs(scrapedFallback[i])]],
              LAMBDA b : b.paras # "" \/ b.figs # <<>>)

\* batchScrape(relatedArticles) of the fallback has resolved
\* (route.ts:356-379).
FallbackScraped ==
    /\ turn.pc = "fallback"
    /\ calls[HandlerCall].kind = "text" /\ calls[HandlerCall].done
    /\ LET scrapedFallback == calls[HandlerCall].result
           html == built(scrapedFallback)
       IN turn' =
            IF html # <<>>
            THEN [turn EXCEPT !.pc = "done", !.scraped = scrapedFallback,
                     !.response = [Json("scraped") EXCEPT
                         !.html = html,
                         !.articles = [i \in 1..Len(scrapedFallback) |->
                                          [title |-> scrapedFallback[i].title,
                                           link |-> scrapedFallback[i].link]]]]
            ELSE [turn EXCEPT !.pc = "done", !.scraped = scrapedFallback,
                     !.response = [Json("articles_only") EXCEPT
                         !.articles = turn.relatedArticles]]
    /\ calls' = [calls EXCEPT ![HandlerCall] = Idle]
    /\ UNCHANGED <<now, scrapedCache, htmlCache, cachedArticles, lastFetch>>
    /\ UNCHANGED outsideHandler

\* After the domain branch (route.ts:386-390): the scrape for a summary,
\* or the primary completion.
SummaryOrCompletion ==
    /\ turn.pc = "tail"
    /\ IF turn.req.summarize /\ Len(turn.relatedArticles) > 0
       THEN /\ turn' = [turn EXCEPT !.pc = "summary_scrape"]
            /\ calls' = [calls EXCEPT ![HandlerCall] =
                            TextCall(turn.relatedArticles, now)]
       ELSE /\ turn' = [turn EXCEPT !.pc = "completion_call"]
            /\ UNCHANGED calls
    /\ UNCHANGED <<now, scrapedCache, htmlCache, cachedArticles, lastFetch>>
    /\ UNCHANGED outsideHandler

\* batchScrape(relatedArticles) for the summary has resolved.
SummaryScraped ==
    /\ turn.pc = "summary_scrape"
    /\ calls[HandlerCall].kind = "text" /\ calls[HandlerCall].done
    /\ turn' = [turn EXCEPT !.pc = "summary_call",
                            !.scraped = calls[HandlerCall].result]
    /\ calls' = [calls EXCEPT ![HandlerCall] = Idle]
    /\ UNCHANGED <<now, scrapedCache, htmlCache, cachedArticles, lastFetch>>
    /\ UNCHANGED outsideHandler

\* The summary call has ended (route.ts:396-423).
SummarySettle(o) ==
    /\ turn.pc = "summary_call"
    /\ turn' = [turn EXCEPT !.pc = "done", !.response =
          IF o.kind = "throw" \/ o.body = "throw" THEN ServerError
          ELSE IF o.kind = "non2xx" THEN Error(502, "Summary upstream error")
          ELSE [Json("articles_summary") EXCEPT !.articles = turn.scraped]]
    /\ UNCHANGED <<now, scrapedCache, htmlCache, calls, cachedArticles, lastFetch>>
    /\ UNCHANGED outsideHandler

\* The primary completion has ended (route.ts:426-451); its success
\* response { reply, articles } has no mode field.
CompletionSettle(o) ==
    /\ turn.pc = "completion_call"
    /\ turn' = [turn EXCEPT !.pc = "done", !.response =
          IF o.kind = "throw" \/ o.body = "throw" THEN ServerError
          ELSE IF o.kind = "non2xx" THEN Error(502, "Upstream error")
          ELSE [Json("") EXCEPT !.articles = turn.relatedArticles]]
    /\ UNCHANGED <<now, scrapedCache, htmlCache, calls, cachedArticles, lastFetch>>
    /\ UNCHANGED outsideHandler

\* The response has been sent; the next request can come in.
Finish ==
    /\ turn.pc = "done"
    /\ turn.n + 1 < MaxTurns
    /\ turn' = [TurnIdle EXCEPT !.n = turn.n + 1]
    /\ UNCHANGED <<now, scrapedCache, htmlCache, calls, cachedArticles, lastFetch>>
    /\ UNCHANGED outsideHandler

----------------------------------------------------------------------------
\* route.ts: getArticles called by requests that are served concurrently

MaxGetters == 3     \* calls of getArticles, each by its own request

GetterIds == 1..MaxGetters

\* One call of getArticles: where it stands, the value of now it read at
\* its start, whether it fetched the CSV, whether it stored what it parsed,
\* and the array it returned.
GetIdle == [pc |-> "idle", now |-> 0, fetched |-> FALSE, stored |-> FALSE, out |-> <<>>]

\* The instants the clock takes in the specification of the index.
IndexTimes == {0, 1, CACHE_TTL_MS - 1, CACHE_TTL_MS, CACHE_TTL_MS + 1}

\* getArticles up to its fetch (route.ts:82-85).
GetArticlesCall(g) ==
    /\ gets[g].pc = "idle"
    /\ gets' = [gets EXCEPT ![g] =
                  IF IndexFresh(now)
                  THEN [GetIdle EXCEPT !.pc = "done", !.now = now,
                                       !.out = cachedArticles.list]
                  ELSE [GetIdle EXCEPT !.pc = "fetching", !.now = now,
                                       !.fetched = TRUE]]
    /\ UNCHANGED <<now, scrapedCache, htmlCache, calls, cachedArticles, lastFetch, turn, rank, fus, txt>>

\* Mutant of GetArticlesSettle: a non-2xx answer is served from the list
\* that is held, and marks it as fetched at the call's start.
GetArticlesSettleServesStale(g, o) ==
    /\ gets[g].pc = "fetching"
    /\ CASE o.kind = "throw" ->
              /\ gets' = [gets EXCEPT ![g].pc = "threw"]
              /\ UNCHANGED <<cachedArticles, lastFetch>>
         [] o.kind = "non2xx" ->
              /\ gets' = [gets EXCEPT ![g].pc = "done", ![g].out = cachedArticles.list]
              /\ lastFetch' = gets[g].now
              /\ UNCHANGED cachedArticles
         [] o.kind = "ok" ->
              /\ cachedArticles' = [isNull |-> FALSE, list |-> parseCsv(o.csv)]
              /\ lastFetch' = gets[g].now
              /\ gets' = [gets EXCEPT ![g].pc = "done", ![g].stored = TRUE,
                                      ![g].out = parseCsv(o.csv)]
    /\ UNCHANGED <<now, scrapedCache, htmlCache, calls, turn, rank, fus, txt>>

\* getArticles after its fetch (route.ts:85-90).
GetArticlesSettle(g, o) ==
    /\ gets[g].pc = "fetching"
    /\ CASE o.kind = "throw" ->
              /\ gets' = [gets EXCEPT ![g].pc = "threw"]
              /\ UNCHANGED <<cachedArticles, lastFetch>>
         [] o.kind = "non2xx" ->
              /\ gets' = [gets EXCEPT ![g].pc = "done"]
              /\ UNCHANGED <<cachedArticles, lastFetch>>
         [] o.kind = "ok" ->
              /\ cachedArticles' = [isNull |-> FALSE, list |-> parseCsv(o.csv)]
              /\ lastFetch' = gets[g].now
              /\ gets' = [gets EXCEPT ![g].pc = "done", ![g].stored = TRUE,
                                      ![g].out = parseCsv(o.csv)]
    /\ UNCHANGED <<now, scrapedCache, htmlCache, calls, turn, rank, fus, txt>>

\* Time passes up to a later instant.
TickIndex(t) ==
    /\ t > now
    /\ now' = t
    /\ UNCHANGED <<scrapedCache, htmlCache, calls, cachedArticles, lastFetch, turn, gets, rank, fus, txt>>

----------------------------------------------------------------------------

CallIds == 1..MaxCalls

\* The module state after load: empty caches, no index, nothing in flight.
InitProgram ==
    /\ now = 0
    /\ scrapedCache = << >>
    /\ htmlCache = << >>
    /\ calls = [c \in CallIds |-> Idle]
    /\ cachedArticles = NullIndex
    /\ lastFetch = 0
    /\ turn = TurnIdle
    /\ gets = [g \in GetterIds |-> GetIdle]

Init ==
    /\ InitProgram
    /\ rank = RankIdle
    /\ fus = FusIdle
    /\ txt = TxtIdle

Next ==
    \/ Tick
    \/ \E c \in CallIds : \E as \in SeqsUpTo(Articles, MaxBatch) : BatchScrapeStart(c, as)
    \/ \E c \in CallIds : \E i \in 1..MaxBatch : \E o \in FetchOutcomes : GetScrapedResume(c, i, o)
    \/ \E c \in CallIds : BatchScrapeResolve(c)
    \/ \E c \in CallIds : Return(c)

Spec == Init /\ [][Next]_vars

\* The event loop runs a continuation once the promises it awaits have
\* settled; whether and when an upstream answers a fetch is not the
\* program's to decide, so GetScrapedResume carries no fairness.
FairSpec ==
    /\ Init
    /\ [][Next]_vars
    /\ \A c \in CallIds : WF_vars(BatchScrapeResolve(c))

\* The structured-HTML side of scrape.ts on its own.
HtmlArticles == { a \in Articles : a.title \in {"A", "B"} }

\* One batchScrapeHtml call at a time; its fetches run concurrently.
HtmlCallIds == {1}

NextHtml ==
    \/ Tick
    \/ \E c \in HtmlCallIds : \E as \in SeqsUpTo(HtmlArticles, MaxBatch) :
          \E opts \in OptChoices : BatchScrapeHtmlStart(c, as, opts)
    \/ \E c \in HtmlCallIds : \E i \in 1..MaxBatch : \E o \in HtmlOutcomes :
          ScrapeArticleHtmlResume(c, i, o)
    \/ \E c \in HtmlCallIds : BatchScrapeHtmlResolve(c)
    \/ \E c \in HtmlCallIds : Return(c)

HtmlSpec == Init /\ [][NextHtml]_vars

\* The ranking applied to drawn queries, corpora and maximum counts.
InitRank ==
    /\ InitProgram
    /\ rank \in RankInputs
    /\ fus = FusIdle
    /\ txt = TxtIdle

NextRank == ApplyDomainRank \/ ApplyCapabilityRank

RankSpec == InitRank /\ [][NextRank]_vars

\* The resolution applied to drawn scraped articles and model replies.
InitFusion ==
    /\ InitProgram
    /\ rank = RankIdle
    /\ fus \in FusionInputs
    /\ txt = TxtIdle

NextFusion == ResolveReply

FusionSpec == InitFusion /\ [][NextFusion]_vars

\* The chat handler serving requests one after the other, with the scrape
\* library under it.
NextChat ==
    \/ Tick
    \/ \E r \in Requests : Receive(r)
    \/ \E q \in ChatTexts \cup {EnglishRatCat} : TranslateSettle(q)
    \/ Route
    \/ GetArticlesBegin
    \/ \E o \in CsvOutcomes : CsvSettle(o)
    \/ Select
    \/ \E i \in 1..MaxArticlesEnv : \E o \in ChatFetchOutcomes :
          GetScrapedResume(HandlerCall, i, o)
    \/ BatchScrapeResolve(HandlerCall)
    \/ FusionScraped
    \/ \E o \in FusionOutcomes : FusionSettle(o)
    \/ \E i \in 1..MaxArticlesEnv : \E o \in HtmlOutcomes :
          ScrapeArticleHtmlResume(HandlerCall, i, o)
    \/ BatchScrapeHtmlResolve(HandlerCall)
    \/ HtmlScraped
    \/ FallbackScraped
    \/ SummaryOrCompletion
    \/ SummaryScraped
    \/ \E o \in LlmOutcomes : SummarySettle(o)
    \/ \E o \in LlmOutcomes : CompletionSettle(o)
    \/ Finish

ChatSpec == Init /\ [][NextChat]_vars

\* The handler up to its intent routing, on every kind of text.
NextRoute ==
    \/ \E r \in RouteRequests : Receive(r)
    \/ \E q \in IntentTexts \cup {EnglishRatCat} : TranslateSettle(q)
    \/ Route

RouteSpec == Init /\ [][NextRoute]_vars

\* The parse of the fusion reply applied to drawn replies.
InitParse ==
    /\ InitProgram
    /\ rank = RankIdle
    /\ fus = FusIdle
    /\ txt \in TxtInputs

NextParse == ApplyFusedParse

ParseSpec == InitParse /\ [][NextParse]_vars

\* The two readings of the index applied to drawn CSV texts.
InitCsv ==
    /\ InitProgram
    /\ rank = RankIdle
    /\ fus = FusIdle
    /\ txt \in CsvInputs

NextCsv == ApplyParseCsv \/ ApplySuggestionsParseCsv

CsvSpec == InitCsv /\ [][NextCsv]_vars

\* getArticles called by concurrent requests, the clock passing the
\* expiry of the index.
NextIndex ==
    \/ \E t \in IndexTimes : TickIndex(t)
    \/ \E g \in GetterIds : GetArticlesCall(g)
    \/ \E g \in GetterIds : \E o \in CsvOutcomes : GetArticlesSettle(g, o)

IndexSpec == Init /\ [][NextIndex]_vars




----------------------------------------------------------------------------
\* Claims about batchScrape and getScraped (checked under Spec)

Failed(op) == op.outcome \in {"non2xx", "throw"}

\* C1: whatever the fetch outcomes and their completion order, batchScrape
\* returns one entry per input article, entry i carrying the title and link
\* of input i; a failed fetch yields text "" and images [] at its own
\* position, and every other entry carries what its own getScraped returned.
C1_BatchAligned ==
    \A c \in CallIds :
        (calls[c].kind = "text" /\ calls[c].done) =>
            LET as == calls[c].articles
                r == calls[c].result
                ops == calls[c].ops
            IN /\ Len(r) = Len(as)
               /\ \A i \in 1..Len(as) :
                    /\ i \in DOMAIN r
                    /\ r[i].title = as[i].title
                    /\ r[i].link = as[i].link
                    /\ Failed(ops[i]) => (r[i].text = "" /\ r[i].images = <<>>)
                    /\ ops[i].outcome = "ok" =>
                          \E p \in Pages : r[i].text = p.text /\ r[i].images = p.images

\* A two-article batch has resolved with a failed first fetch and a
\* successful second one.
C1_Witness ==
    \E c \in CallIds :
        /\ calls[c].kind = "text" /\ calls[c].done
        /\ Len(calls[c].articles) = 2
        /\ calls[c].ops[1].outcome = "throw"
        /\ calls[c].ops[2].outcome = "ok"
        /\ calls[c].result[2].text = "body1"

\* C7: getScraped returns the stored value without fetching exactly when an
\* entry for the url exists with now - ts < TTL; otherwise it fetches,
\* overwrites the entry with {ts of the call, new value} and returns the new
\* value. Entries change only by such an overwrite and are never removed.
C7_GetScraped ==
    [][ /\ \A c \in CallIds :
            (calls[c].kind = "idle" /\ calls'[c].kind = "text") =>
                \A i \in 1..Len(calls'[c].articles) :
                    LET u == calls'[c].articles[i].link
                        op == calls'[c].ops[i]
                        stored == /\ u \in DOMAIN scrapedCache
                                  /\ now - scrapedCache[u].ts < SCRAPE_TTL
                    IN /\ stored => /\ op.st = "hit"
                                    /\ op.outcome = "cached"
                                    /\ op.res = scrapedCache[u].data
                       /\ ~stored => op.st = "pending"
        /\ \A c \in CallIds :
            (calls[c].kind = "text" /\ calls'[c].kind = "text") =>
                \A i \in 1..Len(calls[c].ops) :
                    /\ calls[c].ops[i].st = "hit" => calls'[c].ops[i] = calls[c].ops[i]
                    /\ (calls[c].ops[i].st = "pending" /\ calls'[c].ops[i].st # "pending") =>
                          /\ calls'[c].ops[i].outcome \in {"ok", "non2xx", "throw"}
                          /\ scrapedCache'[calls[c].articles[i].link] =
                                [ts |-> calls[c].t0, data |-> calls'[c].ops[i].res]
        /\ \A u \in DOMAIN scrapedCache : u \in DOMAIN scrapedCache'
        /\ \A u \in DOMAIN scrapedCache' :
            (u \notin DOMAIN scrapedCache \/ scrapedCache'[u] # scrapedCache[u]) =>
                \E c \in CallIds : \E i \in 1..Len(calls[c].ops) :
                    /\ calls[c].articles[i].link = u
                    /\ calls[c].ops[i].st = "pending"
                    /\ calls'[c].ops[i].st = "done"
      ]_vars

\* A call found an entry of age TTL/2 and returned it without fetching, and
\* a later call found the entry at age TTL, fetched and has overwritten it.
C7_Witness ==
    /\ \E c \in CallIds : \E i \in 1..Len(calls[c].ops) :
          /\ calls[c].kind = "text"
          /\ calls[c].ops[i].st = "hit"
          /\ calls[c].t0 = TickMs
    /\ \E c \in CallIds : \E i \in 1..Len(calls[c].ops) :
          LET u == calls[c].articles[i].link
          IN /\ calls[c].kind = "text"
             /\ calls[c].ops[i].st = "done"
             /\ calls[c].t0 = SCRAPE_TTL
             /\ u \in DOMAIN scrapedCache
             /\ scrapedCache[u].ts = calls[c].t0

\* C10: every outbound fetch is bounded (an upstream that never responds
\* counts as a failed fetch), so every batchScrape call eventually
\* completes.
C10_EveryBatchCompletes ==
    \A c \in CallIds :
        (calls[c].kind = "text") ~> (calls[c].kind = "text" /\ calls[c].done)

----------------------------------------------------------------------------
\* Claims about scrapeArticleHtml (checked under HtmlSpec)

\* C3: the html every scrapeArticleHtml call returns is the concatenation of
\* at most that call's perArticleNodeLimit nodes and contains at most that
\* call's perArticleFigureLimit figures, also for calls on the same url with
\* different limits within the cache TTL.
C3_LimitsOfTheCall ==
    \A c \in CallIds :
        calls[c].kind = "html" =>
            \A i \in 1..Len(calls[c].ops) :
                calls[c].ops[i].st # "pending" =>
                    /\ Len(calls[c].ops[i].res) <= NodeLimitOf(calls[c].opts)
                    /\ NumFigures(calls[c].ops[i].res) <= FigureLimitOf(calls[c].opts)

\* C8 as stated: every recompute, whatever html it computed, stores an
\* entry {ts, html} for the url.
C8_EveryRecomputeStored ==
    [][ \A c \in CallIds :
            (calls[c].kind = "html" /\ calls'[c].kind = "html") =>
                \A i \in 1..Len(calls[c].ops) :
                    (calls[c].ops[i].st = "pending" /\ calls'[c].ops[i].st = "done") =>
                        LET u == calls[c].articles[i].link
                        IN /\ u \in DOMAIN htmlCache'
                           /\ htmlCache'[u] = [ts |-> calls[c].t0,
                                               html |-> calls'[c].ops[i].res]
      ]_vars

\* C8 amended: a recompute that computed a non-empty html stores the entry
\* {ts of the call, html} for the url; a recompute that yields an empty html
\* stores nothing and leaves the cache as it was; a call that finds an
\* entry with now - ts < TTL returns its html without fetching, any other
\* call fetches.
C8_NonEmptyRecomputeStored ==
    [][ /\ \A c \in CallIds :
            (calls[c].kind = "html" /\ calls'[c].kind = "html") =>
                \A i \in 1..Len(calls[c].ops) :
                    (calls[c].ops[i].st = "pending" /\ calls'[c].ops[i].st = "done") =>
                        LET u == calls[c].articles[i].link
                            html == calls'[c].ops[i].res
                        IN /\ html # <<>> =>
                                /\ u \in DOMAIN htmlCache'
                                /\ htmlCache'[u] = [ts |-> calls[c].t0, html |-> html]
                           /\ html = <<>> => htmlCache' = htmlCache
        /\ \A c \in CallIds :
            (calls[c].kind = "idle" /\ calls'[c].kind = "html") =>
                \A i \in 1..Len(calls'[c].articles) :
                    LET u == calls'[c].articles[i].link
                        op == calls'[c].ops[i]
                        stored == /\ u \in DOMAIN htmlCache
                                  /\ now - htmlCache[u].ts < SCRAPE_TTL
                    IN /\ stored => /\ op.st = "hit"
                                    /\ op.outcome = "cached"
                                    /\ op.res = htmlCache[u].html
                       /\ ~stored => op.st = "pending"
      ]_vars

\* In one batch, the first call returned a stored non-empty html without
\* fetching, and the second recomputed an empty html from a 2xx page and
\* left no entry for its url.
C8_Witness ==
    \E c \in CallIds :
        /\ calls[c].kind = "html"
        /\ Len(calls[c].ops) = 2
        /\ calls[c].ops[1].st = "hit"
        /\ calls[c].ops[1].res # <<>>
        /\ calls[c].ops[2].st = "done"
        /\ calls[c].ops[2].outcome = "ok"
        /\ calls[c].ops[2].res = <<>>
        /\ calls[c].articles[2].link \notin DOMAIN htmlCache

----------------------------------------------------------------------------
\* Claims about ranking (checked under RankSpec)

\* Titles of the corpus that share a token with the query.
Matching == { i \in 1..Len(rank.corpus) :
                \E t \in 1..Len(Tokens(rank.query)) :
                    includes(toLowerCase(rank.corpus[i].title), Tokens(rank.query)[t]) }

\* C5 as stated: ranking on the domain-query path returns exactly
\* min(k, |corpus|) articles for every non-empty corpus and every query.
C5_ExactlyMinKCorpus ==
    rank.pc = "domain" => Len(rank.domain) = Min(rank.k, Len(rank.corpus))

\* C5 amended: on the domain-query path ranking returns exactly min(k, m)
\* articles, m being the number of titles sharing a token with the query
\* when there is one and |corpus| otherwise; the capability path returns
\* exactly min(10, |corpus|) articles.
C5_ExactlyMinKMatching ==
    /\ rank.pc = "domain" =>
          Len(rank.domain) =
              Min(rank.k, IF Matching = {} THEN Len(rank.corpus) ELSE Cardinality(Matching))
    /\ rank.pc = "capability" =>
          Len(rank.capability) = Min(CapabilityMax, Len(rank.corpus))

\* The query shares a token with some but not all of three titles, and k
\* exceeds the number of matching titles.
C5_Witness ==
    /\ rank.pc = "domain"
    /\ Len(rank.corpus) = 3
    /\ Cardinality(Matching) = 1
    /\ rank.k = 2
    /\ Len(rank.domain) = 1

----------------------------------------------------------------------------
\* Claims about the resolution of fused images (checked under FusionSpec)

\* The reference names a document sent to the model (one of the first 8
\* scraped articles, by 1-based index) and one of its first 6 images (by
\* 0-based index).
Resolvable(ref) ==
    /\ ref.doc \in 1..Min(Len(fus.scraped), FuseArticlesMax)
    /\ ref.img \in 0..(Min(Len(fus.scraped[ref.doc].images), DocImagesMax) - 1)

WithoutDangling(sec) ==
    [sec EXCEPT !.imageRefs = SelectSeq(sec.imageRefs, Resolvable)]

\* C6: every image of every resolved section is the image a resolvable
\* {doc, img} reference of that section names; a dangling reference is
\* dropped without error: every section of the reply is kept, with the
\* images it would have without its dangling references.
C6_ImagesFromSentDocuments ==
    fus.pc = "resolved" =>
        /\ Len(fus.resolved) = Len(fus.sections)
        /\ \A s \in 1..Len(fus.sections) :
            /\ s \in DOMAIN fus.resolved
            /\ fus.resolved[s].heading = fus.sections[s].heading
            /\ fus.resolved[s].markdown = fus.sections[s].text_markdown
            /\ \A m \in 1..Len(fus.resolved[s].images) :
                \E r \in 1..Len(fus.sections[s].imageRefs) :
                    LET ref == fus.sections[s].imageRefs[r]
                    IN /\ Resolvable(ref)
                       /\ fus.resolved[s].images[m].src =
                            proxyUrl(fus.scraped[ref.doc].images[ref.img + 1].src)
                       /\ fus.resolved[s].images[m].alt =
                            fus.scraped[ref.doc].images[ref.img + 1].alt
                       /\ fus.resolved[s].images[m].caption = ref.caption
            /\ fus.resolved[s] =
                 ResolveSection(FusionDocs(fus.scraped), fus.englishQuery,
                                WithoutDangling(fus.sections[s]))

\* Two documents were sent, and a section referencing {doc: 5, img: 2}
\* and {doc: 1, img: 0} has been resolved to the one image of document 1.
C6_Witness ==
    /\ fus.pc = "resolved"
    /\ Len(fus.scraped) = 2
    /\ fus.sections[1].imageRefs = <<Ref(5, 2, Str_b, 0), Ref(1, 0, Str_empty, 0)>>
    /\ Len(fus.resolved[1].images) = 1
    /\ fus.resolved[1].images[1].src = proxyUrl(fus.scraped[1].images[1].src)

----------------------------------------------------------------------------
\* Claims about the chat handler (checked under ChatSpec)

\* The fusion call was made and did not give resolved sections.
FusionFailed ==
    turn.fusion \in {"throw", "throw_text", "non2xx", "not_json", "unparseable",
                     "malformed", "no_sections"}

\* C2: on the domain-query path a fusion attempt that fails, for whatever
\* reason (non-2xx answer, network error, body that is not JSON, model text
\* that does not parse, zero sections), never surfaces as an error
\* response: the turn goes on to the structured-HTML path and from there
\* to the article list, and ends with one of their responses.
C2_FusionFailureNeverAnError ==
    (turn.path = "domain" /\ FusionFailed) =>
        /\ turn.pc \in {"html", "fallback", "done"}
        /\ turn.pc = "done" =>
              /\ turn.response.status = 200
              /\ turn.response.mode \in {"scraped", "articles_only"}

\* The domain branch asked for the index and got no rows: the fetch was
\* rejected or answered non-2xx, or the index (fetched or stored) is empty.
IndexYieldsNoRows ==
    /\ turn.path = "domain"
    /\ turn.index # "none"
    /\ turn.articles = <<>>

\* C4: on the domain-query path, when the article index yields no rows the
\* handler answers with an error; it does not return a success response
\* such as a model reply with an empty article list.
C4_NoIndexIsAnError ==
    (IndexYieldsNoRows /\ turn.pc = "done") => turn.response.status >= 400

NothingScraped(scraped) ==
    \A i \in 1..Len(scraped) : scraped[i].text = "" /\ scraped[i].images = <<>>

\* C9 (as stated): when structured-HTML extraction yields no usable section
\* for any ranked article, the turn ends with the ranked article list (mode
\* articles_only), not with a scraped response.
C9_HtmlFailedEndsInList ==
    (turn.pc = "done" /\ turn.html = "failed") =>
        turn.response.mode = "articles_only"

\* C9 (amended): when structured-HTML extraction yields no usable section,
\* the handler scrapes the text and images of the ranked articles; the turn
\* ends with the ranked article list (mode articles_only) exactly when no
\* article gave any text or image, and otherwise with a scraped response
\* built from the text and images, one section per article that gave some.
\* Either way the response is a success carrying the ranked articles.
C9_ListOnlyWhenNothingScraped ==
    (turn.pc = "done" /\ turn.html = "failed") =>
        /\ turn.response.status = 200
        /\ turn.response.articles = turn.relatedArticles
        /\ Len(turn.scraped) = Len(turn.relatedArticles)
        /\ IF NothingScraped(turn.scraped)
           THEN /\ turn.response.mode = "articles_only"
                /\ turn.response.html = <<>>
           ELSE /\ turn.response.mode = "scraped"
                /\ { turn.response.html[k].idx : k \in 1..Len(turn.response.html) }
                     = { i \in 1..Len(turn.scraped) : ~NothingScraped(<<turn.scraped[i]>>) }

\* A turn whose structured-HTML extraction failed for two ranked articles
\* and whose text scrape gave nothing either has ended with the list.
C9_Witness ==
    /\ turn.pc = "done"
    /\ turn.html = "failed"
    /\ Len(turn.relatedArticles) = 2
    /\ NothingScraped(turn.scraped)
    /\ turn.response.mode = "articles_only"

----------------------------------------------------------------------------
\* More claims about batchScrape and getScraped (checked under Spec)

\* The per-article operation i of call c writes the cache: it did not find
\* a fresh entry, so it fetches and stores under its article's link.
Writes(c, i) == calls[c].ops[i].st # "hit"

\* C11: within one batchScrape call no two concurrently running per-article
\* operations write the same cache entry, also when two articles of the
\* list have the same link.
C11_NoTwoWritersOfOneEntry ==
    \A c \in CallIds :
        calls[c].kind = "text" =>
            \A i \in 1..Len(calls[c].ops) : \A j \in 1..Len(calls[c].ops) :
                (i # j /\ Writes(c, i) /\ Writes(c, j)) =>
                    calls[c].articles[i].link # calls[c].articles[j].link

----------------------------------------------------------------------------
\* More claims about scrapeArticleHtml (checked under HtmlSpec)

HasHandler(e) == \E k \in e.attrs : IsHandlerName(k)

\* C12: no element of the html scrapeArticleHtml returns carries an
\* attribute whose name starts with "on": neither the kept nodes themselves
\* nor any of their descendants, whatever the tag and the handler's name.
C12_NoEventHandlerAttribute ==
    \A c \in CallIds :
        calls[c].kind = "html" =>
            \A i \in 1..Len(calls[c].ops) :
                LET html == calls[c].ops[i].res
                IN \A n \in 1..Len(html) :
                      /\ ~HasHandler(html[n])
                      /\ \A k \in 1..Len(html[n].kids) : ~HasHandler(html[n].kids[k])

----------------------------------------------------------------------------
\* Claims about intent routing (checked under RouteSpec and ChatSpec)

\* The handler has classified the text of the turn.
Routed == turn.path # "none"

\* C13 (as stated): the first matching category wins, in the order
\* greeting, capability inquiry, domain query, generic; a capability
\* question that also matches a domain keyword gets the domain-aware
\* capability answer. So a text matching greeting and domain query (and
\* not capability) is answered as a greeting.
C13_FirstMatchWins ==
    Routed =>
        LET text == turn.req.userText
        IN /\ isGreeting(text) => turn.path = "chitchat"
           /\ (~isGreeting(text) /\ isCapabilityAsk(text)) => turn.path = "capability"
           /\ (~isGreeting(text) /\ ~isCapabilityAsk(text) /\ isSpaceBiologyQuery(text))
                 => turn.path = "domain"
           /\ (~isGreeting(text) /\ ~isCapabilityAsk(text) /\ ~isSpaceBiologyQuery(text))
                 => turn.path = "generic"

\* C13 (amended): a capability question gets the capability answer,
\* domain-aware (the index is asked for) exactly when it also matches a
\* domain keyword; otherwise a text matching a domain keyword takes the
\* domain path; a greeting is answered as a greeting only when it matches
\* neither; a text matching nothing takes the generic path.
C13_CapabilityThenDomainThenGreeting ==
    Routed =>
        LET text == turn.req.userText
            greet == isGreeting(text)
            capability == isCapabilityAsk(text)
            spaceBio == isSpaceBiologyQuery(text)
        IN /\ capability => turn.path = "capability"
           /\ (capability /\ spaceBio) => turn.pc = "get_articles"
           /\ (capability /\ ~spaceBio) =>
                 (turn.pc = "done" /\ turn.response = Json("capabilities"))
           /\ (~capability /\ spaceBio) =>
                 (turn.path = "domain" /\ turn.pc = "get_articles")
           /\ (~capability /\ ~spaceBio /\ greet) =>
                 (turn.path = "chitchat" /\ turn.pc = "done"
                    /\ turn.response = Json("chitchat"))
           /\ (~capability /\ ~spaceBio /\ ~greet) =>
                 (turn.path = "generic" /\ turn.pc = "tail")

\* A text matching all three tests has been routed to the domain-aware
\* capability answer.
C13_Witness ==
    /\ Routed
    /\ isGreeting(turn.req.userText)
    /\ isCapabilityAsk(turn.req.userText)
    /\ isSpaceBiologyQuery(turn.req.userText)
    /\ turn.path = "capability"
    /\ turn.pc = "get_articles"

\* The text of the turn matches none of the three intent tests.
MatchesNothing(text) ==
    ~isGreeting(text) /\ ~isCapabilityAsk(text) /\ ~isSpaceBiologyQuery(text)

\* C14: a message that matches none of greeting, capability inquiry and
\* domain query is answered by the generic model completion; during that
\* turn the article index is never loaded and neither batchScrape nor
\* batchScrapeHtml is invoked (no batch call exists, and the index and the
\* two scrape caches stay as they are).
C14_GenericTurnTouchesNoIndexNoScrape ==
    [][ (turn'.path # "none" /\ MatchesNothing(turn'.req.userText)) =>
            /\ turn'.path = "generic"
            /\ turn'.pc \in {"tail", "completion_call", "done"}
            /\ turn'.index = "none"
            /\ calls[HandlerCall] = Idle /\ calls'[HandlerCall] = Idle
            /\ cachedArticles' = cachedArticles /\ lastFetch' = lastFetch
            /\ scrapedCache' = scrapedCache /\ htmlCache' = htmlCache
            /\ turn'.pc = "done" =>
                  \/ turn'.response = [Json("") EXCEPT !.articles = <<>>]
                  \/ turn'.response = Error(502, "Upstream error")
                  \/ turn'.response = ServerError
      ]_vars

\* A turn with a text matching nothing and summarize set has ended with
\* the generic completion's reply, while the index was stored by an
\* earlier turn.
C14_Witness ==
    /\ turn.pc = "done"
    /\ MatchesNothing(turn.req.userText)
    /\ turn.req.summarize
    /\ turn.response = [Json("") EXCEPT !.articles = <<>>]
    /\ ~cachedArticles.isNull

----------------------------------------------------------------------------
\* More claims about the resolution of fused images (checked under FusionSpec)

\* The references of section s that resolve, in their original order, each
\* with its token overlap.
ResolvedRefs(s) ==
    WithScores(FusionDocs(fus.scraped),
               SetOf(tok(fus.sections[s].text_markdown \o Space \o fus.englishQuery)),
               fus.sections[s].imageRefs)

\* How many resolved references with overlap > 0 go before reference i of
\* ws when ordered by descending overlap, equal overlaps in original order.
GoBefore(ws, i) ==
    Cardinality({ j \in 1..Len(ws) :
                    /\ ws[j].overlap > 0
                    /\ \/ ws[j].overlap > ws[i].overlap
                       \/ (ws[j].overlap = ws[i].overlap /\ j < i) })

ImageOf(w) == [w.data EXCEPT !.src = proxyUrl(w.data.src)]

\* C15: per fused section, among the image references that resolve, at most
\* 3 images are kept, those of highest token overlap, in descending order
\* of overlap with equal overlaps in their original order; if every
\* resolved reference has overlap 0, exactly the first one is kept; if none
\* resolves, the section has no images.
C15_TopThreeByOverlap ==
    fus.pc = "resolved" =>
        \A s \in 1..Len(fus.sections) :
            LET ws == ResolvedRefs(s)
                positive == { i \in 1..Len(ws) : ws[i].overlap > 0 }
                images == fus.resolved[s].images
            IN /\ Len(images) <= 3
               /\ positive # {} =>
                    /\ Len(images) = Min(3, Cardinality(positive))
                    /\ \A i \in positive :
                          GoBefore(ws, i) < 3 => images[GoBefore(ws, i) + 1] = ImageOf(ws[i])
               /\ (positive = {} /\ Len(ws) > 0) => images = << ImageOf(ws[1]) >>
               /\ Len(ws) = 0 => images = <<>>

\* A section with four resolved references, all overlapping, the second
\* overlapping more than the first: three images are kept and the second
\* reference's image comes first.
C15_Witness ==
    /\ fus.pc = "resolved"
    /\ LET ws == ResolvedRefs(1)
       IN /\ Len(ws) = 4
          /\ \A i \in 1..4 : ws[i].overlap > 0
          /\ ws[2].overlap > ws[1].overlap
          /\ ws[3].overlap = ws[1].overlap
          /\ Len(fus.resolved[1].images) = 3
          /\ fus.resolved[1].images[1] = ImageOf(ws[2])
          /\ fus.resolved[1].images[2] = ImageOf(ws[1])

----------------------------------------------------------------------------
\* C16: the backslash repair and the reply without JSON

\* The body of a JSON string is valid: every backslash begins an escape.
ValidBody(b) == StringBody(b \o <<Quote>>, 1) = Len(b) + 2

\* The first position at which reading the body as a JSON string stops at
\* a backslash that begins no valid escape; 0 when there is none.
RECURSIVE FirstStray(_, _)
FirstStray(b, i) ==
    IF i > Len(b) THEN 0
    ELSE IF b[i] # Backslash THEN FirstStray(b, i + 1)
    ELSE IF i + 1 <= Len(b) /\ b[i + 1] \in EscapeChars THEN FirstStray(b, i + 2)
    ELSE IF i + 5 <= Len(b) /\ b[i + 1] = "u" /\ \A k \in 2..5 : b[i + k] \in HexDigits
    THEN FirstStray(b, i + 6)
    ELSE i

Remove(b, p) == SubSeq(b, 1, p - 1) \o SubSeq(b, p + 1, Len(b))

\* The body is valid but for one stray backslash: without it, it is valid.
\* The body is read with the quote that closes it, before which a
\* backslash is no stray one but the start of an escaped quote.
OneStray(b) ==
    LET p == FirstStray(b \o <<Quote>>, 1)
    IN p # 0 /\ ValidBody(Remove(b, p))

IsObjectWith(c) ==
    /\ Len(c) >= Len(ObjectOpen) + Len(ObjectClose)
    /\ SubSeq(c, 1, Len(ObjectOpen)) = ObjectOpen
    /\ SubSeq(c, Len(c) - Len(ObjectClose) + 1, Len(c)) = ObjectClose

BodyOf(c) == SubSeq(c, Len(ObjectOpen) + 1, Len(c) - Len(ObjectClose))

\* C16: a reply whose candidate is a valid JSON object but for one stray
\* backslash in a string value is parsed into an object after the repair.
C16_StrayBackslashRepaired ==
    (/\ txt.pc = "done"
     /\ txt.fn = "FusedParse"
     /\ IsObjectWith(extractJsonCandidate(txt.arg))
     /\ OneStray(BodyOf(extractJsonCandidate(txt.arg))))
        => txt.out = [how |-> "repaired", kind |-> "object"]

\* C16, second half: a reply that holds no JSON gives a null parse.
C16_NoJsonGivesNull ==
    (/\ txt.pc = "done"
     /\ txt.fn = "FusedParse"
     /\ txt.arg \in { <<>>, <<"S", "o", "r", "r", "y", ",", " ", "n", "o", ".">>, <<"{">>, <<"}", "{">> })
        => txt.out.how = "null"

----------------------------------------------------------------------------
\* C17: the order of the ranking (checked under RankSpec)

\* The score of the article at position i of the corpus.
ScoreAt(i) == Score(Tokens(rank.query), rank.corpus[i].title)

\* The positions the domain branch ranks: those that score, or all of them
\* when none does.
Ranked ==
    IF \E i \in 1..Len(rank.corpus) : ScoreAt(i) > 0
    THEN { i \in 1..Len(rank.corpus) : ScoreAt(i) > 0 }
    ELSE 1..Len(rank.corpus)

\* Position j goes before position i: a higher score, or the same score
\* and an earlier place in the corpus.
RanksBefore(j, i) == ScoreAt(j) > ScoreAt(i) \/ (ScoreAt(j) = ScoreAt(i) /\ j < i)

\* The result lists, in this order, the articles of the positions in E.
InRankOrder(result, E) ==
    \A n \in 1..Len(result) :
        \E i \in E :
            /\ Cardinality({ j \in E : RanksBefore(j, i) }) = n - 1
            /\ result[n] = rank.corpus[i]

\* C17: the ranking lists articles by descending score, the score being
\* the number of query tokens found in the lower-cased title; articles of
\* equal score keep their corpus order; when no article scores, the result
\* is the first k articles in corpus order.
C17_DescendingStableFirstK ==
    /\ rank.pc = "domain" =>
          /\ InRankOrder(rank.domain, Ranked)
          /\ (\A i \in 1..Len(rank.corpus) : ScoreAt(i) = 0) =>
                rank.domain = Slice0(rank.corpus, rank.k)
    /\ rank.pc = "capability" =>
          InRankOrder(rank.capability, 1..Len(rank.corpus))

\* Three different articles were ranked, the first two scoring the same
\* and the third more, and all three are in the result.
C17_Witness ==
    /\ rank.pc = "domain"
    /\ Len(rank.corpus) = 3
    /\ ScoreAt(1) > 0
    /\ ScoreAt(2) = ScoreAt(1)
    /\ ScoreAt(3) > ScoreAt(2)
    /\ rank.corpus[1] # rank.corpus[2]
    /\ rank.domain = <<rank.corpus[3], rank.corpus[1], rank.corpus[2]>>

----------------------------------------------------------------------------
\* C18: reading well-formed rows (checked under CsvSpec)

\* The references the rows of the drawn CSV stand for.
Expected == [i \in 1..Len(txt.arg.rows) |->
                [title |-> txt.arg.rows[i].title, link |-> txt.arg.rows[i].link]]

\* C18: a CSV with a valid header and N well-formed rows, rows with a
\* quoted title holding a comma among them, is read as exactly N
\* references in row order, each with the title (without its quotes) and
\* the absolute http(s) link of its row.
C18_EveryRowRead ==
    (txt.pc = "done" /\ txt.fn = "parseCsv") => txt.out = Expected

\* What holds of the suggestions route, which tries the quoted form first.
C18_SuggestionsEveryRowRead ==
    (txt.pc = "done" /\ txt.fn = "suggestions") =>
        txt.out = [i \in 1..Len(Expected) |->
                      [Title |-> Expected[i].title, Link |-> Expected[i].link]]

----------------------------------------------------------------------------
\* C19: the cached index (checked under IndexSpec)

\* A call has loaded the index, and the time t it recorded for the load
\* is less than the time to live ago.
LoadedWithinTtl == \E h \in GetterIds : gets[h].stored /\ now - gets[h].now < CACHE_TTL_MS

\* C19: after a successful load of the index at time t, every call of
\* getArticles made while now - t < CACHE_TTL_MS returns the cached array
\* without fetching, calls that run concurrently included.
C19_CallsWithinTtlDoNotFetch ==
    [][ \A g \in GetterIds :
           (gets[g].pc = "idle" /\ gets'[g].pc # "idle" /\ LoadedWithinTtl)
              => (/\ gets'[g].pc = "done"
                  /\ ~gets'[g].fetched
                  /\ gets'[g].out = cachedArticles.list) ]_vars

\* What holds whatever the interleaving: a call made while the stored
\* lastFetch is less than the time to live ago returns the stored array
\* without fetching, and any other call fetches.
C19_CallsWithinStoredTtlDoNotFetch ==
    [][ \A g \in GetterIds :
           (gets[g].pc = "idle" /\ gets'[g].pc # "idle") =>
              IF ~cachedArticles.isNull /\ now - lastFetch < CACHE_TTL_MS
              THEN gets'[g].pc = "done" /\ ~gets'[g].fetched
                      /\ gets'[g].out = cachedArticles.list
              ELSE gets'[g].pc = "fetching" /\ gets'[g].fetched ]_vars

----------------------------------------------------------------------------
\* C20: the missing API key (checked under ChatSpec)

\* C20: a request received while the API key is absent is answered at
\* once with the error of the missing key, and nothing else is done in
\* its turn: no model is called (not even for the translation), the index
\* is not loaded, nothing is scraped.
C20_MissingKeyEndsTheTurnAtEntry ==
    [][ (turn'.pc # "idle" /\ ~turn'.req.apiKey) =>
           /\ turn'.pc = "done"
           /\ turn'.response = Error(500, "Missing OPENROUTER_API_KEY on server")
           /\ turn'.path = "none"
           /\ turn'.index = "none"
           /\ turn'.fusion = "none"
           /\ turn'.html = "none"
           /\ UNCHANGED <<scrapedCache, htmlCache, calls, cachedArticles, lastFetch>> ]_vars

\* The second request was received without the API key, after a turn that
\* loaded the index, and was answered with the error.
C20_Witness ==
    /\ turn.n = 1
    /\ turn.pc = "done"
    /\ ~turn.req.apiKey
    /\ turn.req.body = "messages"
    /\ ~cachedArticles.isNull
    /\ turn.response.status = 500

----------------------------------------------------------------------------
\* C21: a domain query without a fusion model (checked under ChatSpec)

\* The turn is a domain query that has articles to rank, served without a
\* configured fusion model.
DomainWithoutFusionModel(t) ==
    t.path = "domain" /\ ~t.req.fusionModel /\ t.relatedArticles # <<>>

\* C21 (as stated): for a domain query with the fusion model unconfigured
\* the handler goes from the ranking directly to the structured-HTML
\* extraction of the ranked articles.
C21_DirectlyToHtml ==
    [][ (turn.pc = "ranking" /\ DomainWithoutFusionModel(turn')) =>
           /\ turn'.pc = "html"
           /\ calls'[HandlerCall].kind = "html" ]_vars

\* The positions of the ranked articles whose extraction gave some html,
\* in ranking order.
RECURSIVE NonEmptyFrom(_, _)
NonEmptyFrom(ops, i) ==
    IF i > Len(ops) THEN <<>>
    ELSE (IF ops[i].res # <<>> THEN <<i>> ELSE <<>>) \o NonEmptyFrom(ops, i + 1)

\* C21 (amended): for a domain query without summarize and without a
\* fusion model, no fusion call is made; the fusion targets are scraped
\* for text first, then batchScrapeHtml runs on the ranked articles; when
\* some extraction is non-empty the response has one section for every
\* ranked article whose extraction is non-empty, in ranking order, and
\* none for the others; when none is, the handler goes on to the fallback
\* built from the text scrape.
C21_NoFusionCallThenHtmlSections ==
    [][ (DomainWithoutFusionModel(turn') /\ turn'.pc # "idle") =>
           /\ turn'.pc # "fusion_call"
           /\ turn'.fusion \in {"none", "skipped"}
           /\ (turn.pc = "ranking" /\ ~turn'.req.summarize) =>
                 /\ turn'.pc = "fusion_scrape"
                 /\ calls'[HandlerCall] = TextCall(turn'.fuseTargets, now)
           /\ (turn.pc = "fusion_scrape" /\ turn'.pc # "fusion_scrape") =>
                 /\ turn'.pc = "html"
                 /\ calls'[HandlerCall] = HtmlCall(turn.relatedArticles, HandlerHtmlOpts, now)
           /\ (turn.pc = "html" /\ turn'.pc # "html") =>
                 LET ops == calls[HandlerCall].ops
                     kept == NonEmptyFrom(ops, 1)
                 IN /\ Len(ops) = Len(turn.relatedArticles)
                    /\ IF kept = <<>>
                       THEN turn'.pc = "fallback"
                       ELSE /\ turn'.pc = "done"
                            /\ turn'.response.mode = "scraped"
                            /\ turn'.response.html =
                                 [k \in 1..Len(kept) |->
                                    [idx |-> k,
                                     title |-> turn.relatedArticles[kept[k]].title,
                                     link |-> turn.relatedArticles[kept[k]].link,
                                     body |-> ops[kept[k]].res]]
                            /\ turn'.response.articles =
                                 [k \in 1..Len(kept) |-> turn.relatedArticles[kept[k]]] ]_vars

\* A domain query without a fusion model ranked two articles; the
\* extraction of one was empty, and the response has the other's section.
C21_Witness ==
    /\ turn.pc = "done"
    /\ DomainWithoutFusionModel(turn)
    /\ turn.fusion = "skipped"
    /\ turn.html = "resolved"
    /\ Len(turn.relatedArticles) = 2
    /\ Len(turn.response.html) = 1
    /\ turn.response.articles = <<turn.relatedArticles[2]>>

----------------------------------------------------------------------------
\* C22: a domain query without summarize (checked under ChatSpec)

\* The turn is a domain query without summarize that has ranked articles.
NonSummaryDomain(t) ==
    t.path = "domain" /\ ~t.req.summarize /\ t.relatedArticles # <<>>

----------------------------------------------------------------------------
\* C23: one fusion call, at most two parses, nothing retried (ChatSpec)

\* The fetches of the text scrape that failed.
FailedOutcomes == {"non2xx", "throw"}

\* C23 (as stated, the part about fetches): no article fetch is repeated
\* after a failure: an article whose fetch failed in the text scrape for
\* the fusion is not fetched again when that scrape is over.
C23_NoArticleFetchedAgainAfterFailure ==
    [][ \A i \in 1..Len(calls[HandlerCall].ops) :
           (/\ turn.pc = "fusion_scrape"
            /\ turn'.pc # "fusion_scrape"
            /\ calls[HandlerCall].ops[i].outcome \in FailedOutcomes
            /\ i <= Len(calls'[HandlerCall].ops))
              => calls'[HandlerCall].ops[i].st # "pending" ]_vars

\* The place of each stage of the handler in the order of the code.
StageOrder ==
    [ idle |-> 0, translate |-> 1, route |-> 2, get_articles |-> 3, csv |-> 4,
      ranking |-> 5, fusion_scrape |-> 6, fusion_call |-> 7, html |-> 8,
      fallback |-> 9, tail |-> 10, summary_scrape |-> 11, summary_call |-> 12,
      completion_call |-> 13, done |-> 14 ]

\* C23 (amended): in one turn every stage of the handler is entered at
\* most once, so the fusion model, like every other model and the CSV, is
\* called at most once and nothing is called again after a failure; the
\* reply of the fusion model is parsed at most twice, the second time only
\* after the first parse failed and on the backslash-normalized candidate;
\* within a batch no article's fetch is issued again once it has ended,
\* and a later text scrape of the turn fetches no article whose cached
\* text result, a failure included, is less than SCRAPE_TTL old. The
\* structured-HTML extraction does fetch the articles again.
C23_OneCallTwoParsesNoRetry ==
    [][ /\ turn'.pc # turn.pc =>
              \/ StageOrder[turn.pc] < StageOrder[turn'.pc]
              \/ (turn.pc = "done" /\ turn'.pc = "idle")
        /\ (turn.pc # "fusion_call" /\ turn'.pc # "idle") => turn'.parses = turn.parses
        /\ turn.pc = "fusion_call" /\ turn'.pc # "fusion_call" =>
              /\ turn.parses = <<>>
              /\ turn'.fusion # "none"
              /\ Len(turn'.parses) <= 2
              /\ Len(turn'.parses) = 2 =>
                    /\ JsonParse(turn'.parses[1]) = "error"
                    /\ turn'.parses[2] = normalizeBackslashesForJson(turn'.parses[1])
        /\ \A i \in 1..Len(calls[HandlerCall].ops) :
              (turn'.pc = turn.pc /\ calls[HandlerCall].ops[i].st # "pending")
                 => calls'[HandlerCall].ops[i] = calls[HandlerCall].ops[i]
        /\ (calls'[HandlerCall].kind = "text" /\ turn'.pc # turn.pc) =>
              \A i \in 1..Len(calls'[HandlerCall].ops) :
                 Fresh(scrapedCache, calls'[HandlerCall].articles[i].link, now)
                    => calls'[HandlerCall].ops[i].st = "hit" ]_vars

\* The reply of the fusion model was parsed twice and the turn went on to
\* the structured-HTML extraction.
C23_Witness ==
    /\ turn.pc = "html"
    /\ turn.fusion = "unparseable"
    /\ Len(turn.parses) = 2
    /\ JsonParse(turn.parses[1]) = "error"
    /\ \E i \in 1..Len(calls[HandlerCall].ops) : calls[HandlerCall].ops[i].st = "done"

\* ---------------------------------------------------------------------
\* C24  The ladder of the domain branch (route.ts:249-344).

\* The answer of the fusion model parsed, at once or after the repair, to
\* an object that holds at least one section.
ParsedWithSections(t) ==
    /\ t.fusionData.fusedObj.kind = "object"
    /\ t.fusionData.sections # <<>>

\* The ends of a fusion attempt that leave the handler without a response.
FusionFallsThrough ==
    {"skipped", "non2xx", "unparseable", "no_sections", "malformed"}

\* C24 as stated: a fused response is returned exactly when the reply of
\* the fusion model parsed to an object with at least one section.
C24_FusedExactlyWhenSections ==
    turn.pc \in {"html", "fallback", "done"} /\ turn.fusion # "none" =>
        (turn.response.mode = "fused_json" <=> ParsedWithSections(turn))

\* C24: batchScrapeHtml starts only when the text scrape for fusion has
\* completed and the fusion attempt, if there was one, has ended without a
\* response; a fused response is returned exactly when the reply parsed to
\* an object with at least one section and every section could be
\* resolved: a reply without sections, and one with a section the
\* resolution cannot read (it throws inside the try), both fall through to
\* batchScrapeHtml.
C24_LadderOrder ==
    [][ /\ (turn.pc # "html" /\ turn'.pc = "html" =>
              /\ turn.pc \in {"fusion_scrape", "fusion_call"}
              /\ turn.pc = "fusion_scrape" =>
                    /\ calls[HandlerCall].kind = "text" /\ calls[HandlerCall].done
                    /\ ~turn.req.fusionModel
              /\ turn.pc = "fusion_call" => turn.req.fusionModel
              /\ turn'.fusion \in FusionFallsThrough
              /\ turn'.response = NoResponse
              /\ calls'[HandlerCall].kind = "html"
              /\ calls'[HandlerCall].articles = turn'.relatedArticles
              /\ ~calls'[HandlerCall].done)
        /\ (turn.pc = "fusion_call" /\ turn'.pc # "fusion_call" =>
              /\ turn'.response.mode = "fused_json" <=>
                    ParsedWithSections(turn') /\ turn'.fusionData.wellFormed
              /\ turn'.response.mode = "fused_json" =>
                    /\ turn'.pc = "done"
                    /\ Len(turn'.response.sections) = Len(turn'.fusionData.sections)
              /\ turn'.fusionData.fusedObj.kind = "object"
                    /\ turn'.fusionData.sections = <<>>
                 => turn'.pc = "html" /\ turn'.fusion = "no_sections")
        /\ (turn'.response.mode = "fused_json" /\ turn.response.mode # "fused_json"
              => turn.pc = "fusion_call")
      ]_vars

\* A reply with no section has sent the handler to batchScrapeHtml.
C24_Witness ==
    /\ turn.pc = "html"
    /\ turn.fusion = "no_sections"
    /\ turn.fusionData.fusedObj.kind = "object"
    /\ calls[HandlerCall].kind = "html"

\* ---------------------------------------------------------------------
\* C25  Timestamps of scrapedCache under concurrent refreshes
\*      (scrape.ts:139-146).

\* C25: once getScraped has stored an entry with timestamp t for a url, no
\* later write stores an entry for that url with a timestamp smaller than
\* t.
C25_TimestampsNeverGoBackwards ==
    [][ \A url \in DOMAIN scrapedCache :
            scrapedCache'[url].ts >= scrapedCache[url].ts ]_vars

\* ---------------------------------------------------------------------
\* C26  A failed text fetch is cached like a success (scrape.ts:131-146).

FailedFetch == {"non2xx", "throw"}

\* The getScraped calls that returned the empty result because their
\* fetch failed: the call's slot and the position of the article.
FailedGets ==
    { p \in CallIds \X (1..MaxBatch) :
        /\ calls[p[1]].kind = "text"
        /\ p[2] \in 1..Len(calls[p[1]].ops)
        /\ calls[p[1]].ops[p[2]].st = "done"
        /\ calls[p[1]].ops[p[2]].outcome \in FailedFetch }

UrlOf(p) == calls[p[1]].articles[p[2]].link

\* Call d of batchScrape starts in this step.
Starts(d) == calls[d].kind = "idle" /\ calls'[d].kind = "text"

\* C26 as stated: every getScraped(url) call made less than SCRAPE_TTL
\* after the start of a call that failed returns the empty result without
\* a fetch.
C26_EveryCallWithinTtlOfFailureIsEmpty ==
    [][ \A d \in CallIds : Starts(d) =>
          \A p \in FailedGets : \A j \in 1..Len(calls'[d].articles) :
             /\ calls'[d].articles[j].link = UrlOf(p)
             /\ now - calls[p[1]].t0 < SCRAPE_TTL
             => /\ calls'[d].ops[j].st = "hit"
                /\ calls'[d].ops[j].res = EmptyData ]_vars

\* C26: a getScraped(url) call whose fetch failed stores the empty result
\* under the time of its own start, as a success would be stored; as long
\* as no other call that had missed the cache has stored a result for the
\* url since, every getScraped(url) call made less than SCRAPE_TTL after
\* that start returns the empty result without a fetch.
C26_FailureCachedLikeSuccess ==
    [][ /\ \A c \in CallIds : \A i \in 1..Len(calls[c].ops) :
             /\ calls[c].kind = "text"
             /\ calls[c].ops[i].st = "pending"
             /\ calls'[c].ops[i].st = "done"
             /\ calls'[c].ops[i].outcome \in FailedFetch
             => /\ calls'[c].ops[i].res = EmptyData
                /\ calls[c].articles[i].link \in DOMAIN scrapedCache'
                /\ scrapedCache'[calls[c].articles[i].link]
                      = ScrapedEntry(calls[c].t0, EmptyData)
        /\ \A d \in CallIds : Starts(d) =>
             \A p \in FailedGets : \A j \in 1..Len(calls'[d].articles) :
                /\ calls'[d].articles[j].link = UrlOf(p)
                /\ now - calls[p[1]].t0 < SCRAPE_TTL
                /\ scrapedCache[UrlOf(p)] = ScrapedEntry(calls[p[1]].t0, EmptyData)
                => /\ calls'[d].ops[j].st = "hit"
                   /\ calls'[d].ops[j].res = EmptyData ]_vars

\* A call made half a TTL after the start of a call that failed has
\* returned the empty result from the cache.
C26_Witness ==
    \E p \in FailedGets : \E d \in CallIds : \E j \in 1..MaxBatch :
        /\ calls[d].kind = "text"
        /\ j \in 1..Len(calls[d].ops)
        /\ calls[d].articles[j].link = UrlOf(p)
        /\ calls[d].t0 > calls[p[1]].t0
        /\ calls[d].t0 - calls[p[1]].t0 < SCRAPE_TTL
        /\ calls[d].ops[j].st = "hit"
        /\ calls[d].ops[j].res = EmptyData

\* ---------------------------------------------------------------------
\* C27  An index without articles is cached (route.ts:81-91).

\* The calls of getArticles that fetched a CSV without articles and stored
\* the empty list.
StoredEmpty ==
    { g \in GetterIds : gets[g].pc = "done" /\ gets[g].stored /\ gets[g].out = <<>> }

\* Call h of getArticles starts in this step.
GetStarts(h) == gets[h].pc = "idle" /\ gets'[h].pc # "idle"

\* Call h answers the empty list from the cache, without a fetch.
AnswersEmptyFromCache(h) ==
    /\ gets'[h].pc = "done"
    /\ ~gets'[h].fetched
    /\ gets'[h].out = <<>>
    /\ UNCHANGED <<cachedArticles, lastFetch>>

\* C27 as stated: every call of getArticles made less than CACHE_TTL_MS
\* after a call that stored the empty list returns the empty list without
\* a fetch.
C27_EveryCallWithinTtlOfEmptyIsEmpty ==
    [][ \A h \in GetterIds : GetStarts(h) =>
          \A g \in StoredEmpty :
             now >= gets[g].now /\ now - gets[g].now < CACHE_TTL_MS
             => AnswersEmptyFromCache(h) ]_vars

\* C27: a CSV that parses to no article is stored as the index, an empty
\* and non-null list, with the time the storing call read at its start; as
\* long as no other call that had missed the cache has stored since, every
\* call of getArticles made less than CACHE_TTL_MS after that time returns
\* the empty list without a fetch.
C27_EmptyIndexCached ==
    [][ /\ \A g \in GetterIds :
             /\ gets[g].pc = "fetching"
             /\ gets'[g].pc = "done"
             /\ gets'[g].stored
             /\ gets'[g].out = <<>>
             => /\ cachedArticles' = [isNull |-> FALSE, list |-> <<>>]
                /\ lastFetch' = gets[g].now
        /\ \A h \in GetterIds : GetStarts(h) =>
             \A g \in StoredEmpty :
                /\ now >= gets[g].now /\ now - gets[g].now < CACHE_TTL_MS
                /\ cachedArticles.list = <<>> /\ lastFetch = gets[g].now
                => AnswersEmptyFromCache(h) ]_vars

\* A call made one millisecond before the expiry of a stored empty index
\* has answered the empty list from the cache.
C27_Witness ==
    \E g \in StoredEmpty : \E h \in GetterIds :
        /\ gets[h].pc = "done"
        /\ ~gets[h].fetched
        /\ gets[h].out = <<>>
        /\ gets[h].now - gets[g].now = CACHE_TTL_MS - 1
        /\ cachedArticles = [isNull |-> FALSE, list |-> <<>>]

\* ---------------------------------------------------------------------
\* C28  A non-2xx answer of the CSV fetch (route.ts:81-91).

\* Call g returns in this step without having stored anything: its fetch
\* was answered with a non-2xx status.
ReturnsOnNon2xx(g) ==
    /\ gets[g].pc = "fetching"
    /\ gets'[g].pc = "done"
    /\ ~gets'[g].stored

\* The calls that stored a list they fetched less than CACHE_TTL_MS ago.
StoredWithinTtl ==
    { k \in GetterIds : gets[k].stored /\ now - gets[k].now < CACHE_TTL_MS }

\* C28 as stated: a non-2xx answer leaves cachedArticles and lastFetch as
\* they were, getArticles returns the empty list, and the next call
\* fetches again.
C28_Non2xxThenNextCallFetches ==
    [][ \A g \in GetterIds : ReturnsOnNon2xx(g) =>
          /\ UNCHANGED <<cachedArticles, lastFetch>>
          /\ gets'[g].out = <<>>
          /\ ~IndexFresh(now)' ]_vars

\* C28: a non-2xx answer leaves cachedArticles and lastFetch as they were
\* and getArticles returns the empty list, also when an expired list is
\* held; a call made afterwards fetches again, unless another call that
\* was in flight has stored a list it fetched less than CACHE_TTL_MS
\* before.
C28_Non2xxLeavesIndexAlone ==
    [][ /\ \A g \in GetterIds : ReturnsOnNon2xx(g) =>
             /\ UNCHANGED <<cachedArticles, lastFetch>>
             /\ gets'[g].out = <<>>
             /\ StoredWithinTtl = {} => ~IndexFresh(now)'
        /\ \A h \in GetterIds : GetStarts(h) /\ StoredWithinTtl = {} =>
             gets'[h].pc = "fetching" /\ gets'[h].fetched ]_vars

\* A call got a non-2xx answer while an expired list of articles was held,
\* returned the empty list, and a later call is fetching.
C28_Witness ==
    \E g \in GetterIds : \E h \in GetterIds \ {g} :
        /\ gets[g].pc = "done" /\ gets[g].fetched /\ ~gets[g].stored
        /\ gets[g].out = <<>>
        /\ ~cachedArticles.isNull /\ cachedArticles.list # <<>>
        /\ gets[g].now - lastFetch >= CACHE_TTL_MS
        /\ gets[h].pc = "fetching"
        /\ gets[h].now > gets[g].now

\* ---------------------------------------------------------------------
\* C29  The citeIndex of a fused image (route.ts:310-317).

\* Image im of a resolved section comes from reference ref: ref names
\* document number ref.doc of the prompt, counted from 1, and one of the
\* images that document was given in the prompt, counted from 0.
ComesFrom(im, ref) ==
    LET docs == FusionDocs(fus.scraped)
    IN /\ ref.doc \in 1..Len(docs)
       /\ ref.img \in 0..(Len(docs[ref.doc].images) - 1)
       /\ im.src = proxyUrl(docs[ref.doc].images[ref.img + 1].src)
       /\ im.alt = docs[ref.doc].images[ref.img + 1].alt
       /\ im.caption = ref.caption

\* C29: every image of a fused section comes from one of the section's
\* references and has that reference's citeIndex when it is not zero, and
\* otherwise the 1-based index of the document the image was resolved
\* from; a citeIndex the model supplied is taken as it is, whether or not
\* the document list has a document of that number.
C29_CiteIndexOfTheReference ==
    fus.pc = "resolved" =>
        \A s \in 1..Len(fus.resolved) :
            \A k \in 1..Len(fus.resolved[s].images) :
                LET im == fus.resolved[s].images[k]
                    refs == fus.sections[s].imageRefs
                IN \E r \in 1..Len(refs) :
                      /\ ComesFrom(im, refs[r])
                      /\ refs[r].citeIndex # 0 => im.citeIndex = refs[r].citeIndex
                      /\ refs[r].citeIndex = 0 => im.citeIndex = refs[r].doc

\* A section holds an image cited by a number beyond the document list,
\* as its reference said, and an image cited by its own document's index.
C29_Witness ==
    /\ fus.pc = "resolved"
    /\ \E k \in 1..Len(fus.resolved[1].images) :
          fus.resolved[1].images[k].citeIndex > Len(FusionDocs(fus.scraped))
    /\ \E k \in 1..Len(fus.resolved[1].images) :
          \E r \in 1..Len(fus.sections[1].imageRefs) :
             /\ fus.sections[1].imageRefs[r].citeIndex = 0
             /\ ComesFrom(fus.resolved[1].images[k], fus.sections[1].imageRefs[r])
             /\ fus.resolved[1].images[k].citeIndex = fus.sections[1].imageRefs[r].doc

\* ---------------------------------------------------------------------
\* C30  Nested whitelisted elements in the html of scrapeArticleHtml
\*      (scrape.ts:220-238).

\* Node k of html holds a whitelisted child that is also a node of html in
\* its own right: querySelectorAll lists the child after its parent, in
\* document order.
SerializedTwice(html, k) ==
    \E j \in 1..Len(html[k].kids) :
        /\ html[k].kids[j].tag \in keepSelectors
        /\ \E p \in (k + 1)..Len(html) : html[p] = html[k].kids[j]

\* C30: in the html scrapeArticleHtml returns, no whitelisted element that
\* is nested in a kept whitelisted element appears both inside its
\* ancestor's markup and as a kept node of its own.
C30_EachElementSerializedOnce ==
    \A c \in HtmlCallIds : calls[c].kind = "html" =>
        \A i \in 1..Len(calls[c].ops) :
            calls[c].ops[i].st # "pending" =>
                \A k \in 1..Len(calls[c].ops[i].res) :
                    ~SerializedTwice(calls[c].ops[i].res, k)

====
